---------------------------- MODULE Spec2Model ----------------------------
(***************************************************************************)
(* Model of the ranking engine of rollsport (src/src/utils/scoring.ts):    *)
(* calculateRankings and the functions it calls.                           *)
(*                                                                         *)
(* Numbers.  Marks, judge totals, B-mark sums and totalScore are IEEE-754  *)
(* doubles, added, multiplied, divided and rounded as the code's           *)
(* floating-point arithmetic does (see "Doubles" below for their form).    *)
(* Pair scores, majority victories and the comparison values of the tie    *)
(* break are sums of 0, 0.5 and 1, which doubles add exactly: they are     *)
(* the integer 80 * (the JavaScript number), so 1 is One = 80 and 0.5 is   *)
(* Half = 40.  Ranks, vote tallies and judge counts are plain counts.      *)
(*                                                                         *)
(* Arrays are 1-based sequences; judge index i of the code is i + 1 here.  *)
(* An optional field (tieBreakLevel?, tieBreakValue?, tieBreakInfo?) is a  *)
(* sequence of length 0 (absent) or 1 (present).                           *)
(***************************************************************************)
EXTENDS Integers, Sequences, FiniteSets, TLC

VARIABLES input, skaters, results, order, graph, pc

vars == <<input, skaters, results, order, graph, pc>>

(***************************************************************************)
(* Bounds of the model.                                                    *)
(***************************************************************************)
NumJudges == 2
\* Spec: collections of up to MaxSkaters records.
MaxSkaters == 3
MaxPoints == 2
MaxMissing == 1
\* SpecMissing: collections of up to PairSkaters records with many missing marks.
PairSkaters == 2
PairPoints == 2
PairMissing == 4
\* SpecGroup: up to GroupSkaters records with distinct names and no missing
\* marks.
GroupSkaters == 3
GroupPoints == 3
\* SpecRounding: up to RoundingSkaters records drawn from RoundingShapes.
RoundingSkaters == 3
\* SpecGraph: result collections of up to GraphNodes records with at most
\* GraphWins won head-to-head entries; at most GraphExtras entries stand
\* beside the one entry per other record, in collections of up to
\* GraphExtraNodes records.
GraphNodes == 4
GraphWins == 6
GraphExtras == 1
GraphExtraNodes == 3
\* SpecParse: input texts of up to MaxLines lines.
MaxLines == 3

(***************************************************************************)
(* Program constants.                                                      *)
(***************************************************************************)
One == 80
Half == 40
\* null is no sequence of limbs.
null == <<-1>>

(***************************************************************************)
(* Doubles.  Every finite non-negative double is a multiple of             *)
(* 2^-MinExponent below 2^MaxExponent with at most MantissaBits            *)
(* significant bits.  The double n * 2^-MinExponent is written <<z>> \o m, *)
(* where m is the sequence of limbs of n / Base^z in base 2^LimbBits,      *)
(* least significant limb first, and neither the first nor the last limb   *)
(* of m is 0; the double 0 is <<0>>.  Infinity is written as               *)
(* 2^MaxExponent.  Equal doubles are equal sequences.  The marks of the    *)
(* program are never negative and never NaN.                               *)
(***************************************************************************)
MinExponent == 1074
MaxExponent == 1024
LimbBits == 15
Base == 32768
MantissaBits == 53

\* The element of a one-element set.  In only({e(v) : v \in {x}}) the
\* expression x is evaluated once and e is computed from its value, as the
\* code computes from the value of a const or of an argument.
only(S) == CHOOSE element \in S : TRUE

Max(a, b) == IF a >= b THEN a ELSE b

\* 2^0, ..., 2^LimbBits
PowersOfTwo ==
    <<1, 2, 4, 8, 16, 32, 64, 128, 256, 512, 1024, 2048, 4096, 8192, 16384, 32768>>

\* 2^k for 0 <= k <= LimbBits
pow2(k) == PowersOfTwo[k + 1]

\* n without its most significant zero limbs.
canonical(n) ==
    only({IF x = <<>> \/ x[Len(x)] # 0 THEN x
          ELSE IF \A i \in DOMAIN x : x[i] = 0 THEN <<>>
          ELSE SubSeq(x, 1, CHOOSE i \in DOMAIN x :
                                /\ x[i] # 0
                                /\ \A k \in (i + 1)..Len(x) : x[k] = 0) :
             x \in {n}})

RECURSIVE fromInt(_)
fromInt(k) == IF k = 0 THEN <<>> ELSE <<k % Base>> \o fromInt(k \div Base)

limb(n, i) == IF i \in DOMAIN n THEN n[i] ELSE 0

\* The limbs first to last of a + b + carry, and the carry out of them.
\* The range is halved, so that the depth of the evaluation grows with the
\* logarithm of the number of limbs.
RECURSIVE addRange(_, _, _, _, _)
addRange(a, b, first, last, carry) ==
    IF first = last
    THEN only({[limbs |-> <<s % Base>>, carry |-> s \div Base] :
                  s \in {limb(a, first) + limb(b, first) + carry}})
    ELSE only({[limbs |-> low.limbs \o high.limbs, carry |-> high.carry] :
                  <<low, high>> \in
                      {<<l, addRange(a, b, (first + last) \div 2 + 1, last, l.carry)>> :
                          l \in {addRange(a, b, first, (first + last) \div 2, carry)}}})

natPlus(a, b) ==
    only({IF length = 0 THEN <<>>
          ELSE only({sum.limbs \o fromInt(sum.carry) :
                        sum \in {addRange(x, y, 1, length, 0)}}) :
             <<x, y, length>> \in {<<p, q, Max(Len(p), Len(q))>> : p \in {a}, q \in {b}}})

\* The limbs first to last of a * m + carry, and the carry out of them.
RECURSIVE timesRange(_, _, _, _, _)
timesRange(a, m, first, last, carry) ==
    IF first = last
    THEN only({[limbs |-> <<s % Base>>, carry |-> s \div Base] :
                  s \in {a[first] * m + carry}})
    ELSE only({[limbs |-> low.limbs \o high.limbs, carry |-> high.carry] :
                  <<low, high>> \in
                      {<<l, timesRange(a, m, (first + last) \div 2 + 1, last, l.carry)>> :
                          l \in {timesRange(a, m, first, (first + last) \div 2, carry)}}})

\* a * m for 0 <= m <= Base.
natTimes(a, m) ==
    only({IF x = <<>> THEN <<>>
          ELSE only({canonical(product.limbs \o fromInt(product.carry)) :
                        product \in {timesRange(x, m, 1, Len(x), 0)}}) :
             x \in {a}})

\* The limbs first to last of the quotient of a by d, from the most
\* significant one, with remainder rem carried in, and the remainder left.
RECURSIVE divideRange(_, _, _, _, _)
divideRange(a, d, first, last, rem) ==
    IF first = last
    THEN only({[limbs |-> <<cur \div d>>, remainder |-> cur % d] :
                  cur \in {rem * Base + a[first]}})
    ELSE only({[limbs |-> low.limbs \o high.limbs, remainder |-> low.remainder] :
                  <<high, low>> \in
                      {<<h, divideRange(a, d, first, (first + last) \div 2, h.remainder)>> :
                          h \in {divideRange(a, d, (first + last) \div 2 + 1, last, rem)}}})

\* Quotient and remainder of a by d, for 1 <= d <= Base.
natDivide(a, d) ==
    only({IF x = <<>> THEN [quotient |-> <<>>, remainder |-> 0]
          ELSE only({[quotient |-> canonical(r.limbs), remainder |-> r.remainder] :
                        r \in {divideRange(x, d, 1, Len(x), 0)}}) :
             x \in {a}})

shiftLeft(a, k) ==
    only({IF x = <<>> THEN <<>>
          ELSE [i \in 1..(k \div LimbBits) |-> 0] \o natTimes(x, pow2(k % LimbBits)) :
             x \in {a}})

shiftRight(a, k) ==
    only({natDivide(SubSeq(x, (k \div LimbBits) + 1, Len(x)),
                    pow2(k % LimbBits)).quotient : x \in {a}})

\* a is a multiple of 2^k.
lowBitsZero(a, k) ==
    /\ \A i \in 1..(k \div LimbBits) : limb(a, i) = 0
    /\ limb(a, (k \div LimbBits) + 1) % pow2(k % LimbBits) = 0

\* The number of bits of a limb.
bits(x) == CHOOSE b \in 0..LimbBits : x < pow2(b) /\ (b = 0 \/ x >= pow2(b - 1))

bitLength(a) ==
    only({IF x = <<>> THEN 0 ELSE (Len(x) - 1) * LimbBits + bits(x[Len(x)]) :
             x \in {a}})

isOdd(a) == limb(a, 1) % 2 = 1

\* The sign of a - b, for natural numbers.
natCompare(a, b) ==
    only({IF Len(x) > Len(y) THEN 1
          ELSE IF Len(x) < Len(y) THEN -1
          ELSE IF x = y THEN 0
          ELSE only({IF x[i] > y[i] THEN 1 ELSE -1 :
                        i \in {CHOOSE i \in DOMAIN x :
                                  /\ x[i] # y[i]
                                  /\ \A k \in (i + 1)..Len(x) : x[k] = y[k]}}) :
             x \in {a}, y \in {b}})

Zero == <<0>>

\* The double n * Base^z * 2^-MinExponent of a natural number n.
pack(z, n) ==
    only({IF x = <<>> THEN Zero
          ELSE only({<<z + low - 1>> \o SubSeq(x, low, Len(x)) :
                        low \in {CHOOSE i \in DOMAIN x :
                                    /\ x[i] # 0
                                    /\ \A k \in 1..(i - 1) : x[k] = 0}}) :
             x \in {n}})

offset(x) == Head(x)

\* The natural number x / (Base^z * 2^-MinExponent), for z <= offset(x).
limbsAt(x, z) ==
    IF Len(x) = 1 THEN <<>> ELSE [i \in 1..(offset(x) - z) |-> 0] \o Tail(x)

\* The largest z for which x and y are whole in units of Base^z *
\* 2^-MinExponent; 0 is whole in every unit.
commonOffset(x, y) ==
    IF x = Zero THEN offset(y)
    ELSE IF y = Zero THEN offset(x)
    ELSE IF offset(x) <= offset(y) THEN offset(x)
    ELSE offset(y)

Infinity == pack(0, shiftLeft(<<1>>, MinExponent + MaxExponent))

\* n * Base^z * 2^-MinExponent as a double: Infinity from 2^MaxExponent on.
finite(z, n) ==
    IF LimbBits * (z + Len(n)) > MinExponent + MaxExponent
           /\ LimbBits * z + bitLength(n) > MinExponent + MaxExponent
    THEN Infinity
    ELSE pack(z, n)

\* n with its k >= 1 lowest bits rounded away: to the nearest multiple of
\* 2^k, ties to the even one, of a real number of which n is the integer
\* part and which is larger than n exactly when inexact holds.
roundedAt(n, k, inexact) ==
    LET kept == shiftRight(n, k)
        roundBit == isOdd(shiftRight(n, k - 1))
        sticky == inexact \/ ~lowBitsZero(n, k - 1)
        up == roundBit /\ (sticky \/ isOdd(kept))
    IN  IF ~inexact /\ lowBitsZero(n, k) THEN n
        ELSE shiftLeft(IF up THEN natPlus(kept, <<1>>) ELSE kept, k)

\* The double nearest to a real number of which n is the integer part, in
\* units of Base^z * 2^-MinExponent, and which is larger than n exactly
\* when inexact holds: MantissaBits significant bits, no bit below
\* 2^-MinExponent, ties to the even mantissa.  An inexact n has more than
\* MantissaBits bits or reaches below 2^-MinExponent.
roundToDouble(z, n, inexact) ==
    only({IF z >= 0 /\ LimbBits * Len(x) <= MantissaBits THEN finite(z, x)
          ELSE only({IF k <= 0 THEN finite(z, x)
                     ELSE finite(z, roundedAt(x, k, inexact)) :
                        k \in {Max(bitLength(x) - MantissaBits, -(LimbBits * z))}}) :
             x \in {n}})

\* The sign of x - y.
compare(x, y) ==
    only({natCompare(limbsAt(a, z), limbsAt(b, z)) :
             <<a, b, z>> \in {<<p, q, commonOffset(p, q)>> :
                                 p \in {x}, q \in {y}}})

greater(a, b) == compare(a, b) = 1

\* x + y
plus(x, y) ==
    only({roundToDouble(z, natPlus(limbsAt(a, z), limbsAt(b, z)), FALSE) :
             <<a, b, z>> \in {<<p, q, commonOffset(p, q)>> :
                                 p \in {x}, q \in {y}}})

\* x * m for an integer 1 <= m <= Base
times(x, m) ==
    only({roundToDouble(offset(a), natTimes(Tail(a), m), FALSE) : a \in {x}})

\* An inexact quotient by a divisor of at most Base keeps more than
\* MantissaBits bits when the dividend has GuardLimbs more limbs.
GuardLimbs == 5

\* x / d for an integer 1 <= d <= Base
divide(x, d) ==
    IF x = Infinity THEN Infinity
    ELSE only({roundToDouble(offset(a) - GuardLimbs, q.quotient, q.remainder # 0) :
                  <<a, q>> \in {<<b, natDivide([i \in 1..GuardLimbs |-> 0] \o Tail(b), d)>> :
                                   b \in {x}}})

\* n / d for integers n >= 0 and 1 <= d <= Base.
quotient(n, d) == divide(finite(0, shiftLeft(fromInt(n), MinExponent)), d)

oneHalf == quotient(1, 2)

\* Math.round(x): the largest integer that is at most x + 0.5.
mathRound(x) ==
    only({finite(z, shiftLeft(shiftRight(natPlus(limbsAt(a, z), limbsAt(oneHalf, z)),
                                         MinExponent - LimbBits * z),
                              MinExponent - LimbBits * z)) :
             <<a, z>> \in {<<b, commonOffset(b, oneHalf)>> : b \in {x}}})

\* The double k / 16.
sixteenths(k) == quotient(k, 16)

\* A mark is a multiple of 1/16; the marks of one input collection add up
\* to at most MaxPoints (PairPoints) sixteenths and at most MaxMissing
\* (PairMissing) of them are null.
MostPoints == Max(Max(MaxPoints, PairPoints), GroupPoints)

MarkOfSixteenths == [k \in 0..MostPoints |-> sixteenths(k)]

Marks == {MarkOfSixteenths[k] : k \in 0..MostPoints}
MarkOrNull == Marks \cup {null}

\* s.reduce((sum, x) => sum + x, 0): the doubles of s added from the left.
RECURSIVE SumSeq(_)
SumSeq(s) ==
    IF s = <<>> THEN Zero
    ELSE plus(SumSeq(SubSeq(s, 1, Len(s) - 1)), s[Len(s)])

\* score += ... over the entries of s, which are 0, Half or One.
RECURSIVE addUp(_)
addUp(s) == IF s = <<>> THEN 0 ELSE Head(s) + addUp(Tail(s))

\* `x ?? 0` applied to an array read: undefined (index out of range) and
\* null both give 0.
OrZero(arr, i) ==
    IF i \in DOMAIN arr
    THEN LET value == arr[i] IN IF value # null THEN value ELSE Zero
    ELSE Zero

\* arr.filter(s => s !== null).length
NonNullCount(arr) == Cardinality({i \in DOMAIN arr : arr[i] # null})

\* Math.round(num * 10) / 10
roundToOneDecimal(num) == divide(mathRound(times(num, 10)), 10)

effectiveCount(skater) ==
    Max(NonNullCount(skater.aScores), NonNullCount(skater.bScores))

\* The loop of calculateJudgeTotals: totals after numJudges rounds of
\* totals.push(aScore + bScore).
RECURSIVE pushTotals(_, _)
pushTotals(skater, numJudges) ==
    IF numJudges = 0 THEN <<>>
    ELSE Append(pushTotals(skater, numJudges - 1),
                plus(OrZero(skater.aScores, numJudges),
                     OrZero(skater.bScores, numJudges)))

calculateJudgeTotalsAllIndices(skater) ==
    pushTotals(skater, Max(Len(skater.aScores), Len(skater.bScores)))

calculateJudgeTotals(skater) == pushTotals(skater, effectiveCount(skater))

calculateTotalScore(skater) == SumSeq(calculateJudgeTotals(skater))

compareTotalsOnly(skater1Total, skater1BScore, skater2Total, skater2BScore) ==
    IF greater(skater1Total, skater2Total) THEN One
    ELSE IF greater(skater2Total, skater1Total) THEN 0
    ELSE Half

compareSkatersByJudge(skater1Total, skater1BScore, skater2Total, skater2BScore) ==
    IF greater(skater1Total, skater2Total) THEN One
    ELSE IF greater(skater2Total, skater1Total) THEN 0
    ELSE IF greater(skater1BScore, skater2BScore) THEN One
    ELSE IF greater(skater2BScore, skater1BScore) THEN 0
    ELSE Half

pairwiseComparisonOwnJudges(skater1, skater2) ==
    only({addUp([i \in 1..Len(totals1) |->
            compareSkatersByJudge(OrZero(totals1, i), OrZero(skater1.bScores, i),
                                  OrZero(totals2, i), OrZero(skater2.bScores, i))]) :
             totals1 \in {calculateJudgeTotals(skater1)},
             totals2 \in {calculateJudgeTotals(skater2)}})

pairwiseComparison(skater1, skater2) ==
    only({addUp([i \in 1..Max(Len(totals1), Len(totals2)) |->
            compareSkatersByJudge(OrZero(totals1, i), OrZero(skater1.bScores, i),
                                  OrZero(totals2, i), OrZero(skater2.bScores, i))]) :
             totals1 \in {calculateJudgeTotals(skater1)},
             totals2 \in {calculateJudgeTotals(skater2)}})

\* The results of compareSkatersByJudge for judgeIdx 0 .. numJudges - 1 in
\* the inner loop of calculateHeadToHeadDetails.
RECURSIVE judgeResults(_, _, _)
judgeResults(skater, opponent, numJudges) ==
    IF numJudges = 0 THEN <<>>
    ELSE Append(judgeResults(skater, opponent, numJudges - 1),
            compareSkatersByJudge(
                plus(OrZero(skater.aScores, numJudges),
                     OrZero(skater.bScores, numJudges)),
                OrZero(skater.bScores, numJudges),
                plus(OrZero(opponent.aScores, numJudges),
                     OrZero(opponent.bScores, numJudges)),
                OrZero(opponent.bScores, numJudges)))

headToHeadEntryTiesCount(skater, opponent) ==
    LET numJudges == Max(effectiveCount(skater), effectiveCount(opponent))
        result == judgeResults(skater, opponent, numJudges)
        skaterVotes == Cardinality({i \in 1..numJudges : result[i] # 0})
        opponentVotes == Cardinality({i \in 1..numJudges : result[i] = 0})
    IN  [opponent |-> opponent.name,
         won |-> skaterVotes > opponentVotes,
         skaterVotes |-> skaterVotes,
         opponentVotes |-> opponentVotes]

\* One head-to-head entry: the body of the loop over opponents.
headToHeadEntry(skater, opponent) ==
    LET numJudges == Max(effectiveCount(skater), effectiveCount(opponent))
        result == judgeResults(skater, opponent, numJudges)
        skaterVotes == Cardinality({i \in 1..numJudges : result[i] = One})
        opponentVotes == Cardinality({i \in 1..numJudges : result[i] = 0})
    IN  [opponent |-> opponent.name,
         won |-> skaterVotes > opponentVotes,
         skaterVotes |-> skaterVotes,
         opponentVotes |-> opponentVotes]

RECURSIVE headToHeadLoop(_, _, _)
headToHeadLoop(skater, allSkaters, k) ==
    IF k > Len(allSkaters) THEN <<>>
    ELSE IF allSkaters[k].name = skater.name
         THEN headToHeadLoop(skater, allSkaters, k + 1)
         ELSE <<headToHeadEntry(skater, allSkaters[k])>>
                  \o headToHeadLoop(skater, allSkaters, k + 1)

calculateHeadToHeadDetails(skater, allSkaters) ==
    headToHeadLoop(skater, allSkaters, 1)

\* The Map returned by calculateMajorityVictories, keyed by name.
NameSet(list) == {list[i].name : i \in DOMAIN list}

Add(map, key, amount) == [map EXCEPT ![key] = @ + amount]

awardVictories(victories, skater1, skater2) ==
    only({IF score1 > score2 THEN Add(victories, skater1.name, One)
          ELSE IF score2 > score1 THEN Add(victories, skater2.name, One)
          ELSE Add(Add(victories, skater1.name, Half), skater2.name, Half) :
             <<score1, score2>> \in
                 {<<score, numJudges * One - score>> :
                     score \in {pairwiseComparison(skater1, skater2)},
                     numJudges \in {Max(Len(calculateJudgeTotals(skater1)),
                                        Len(calculateJudgeTotals(skater2)))}}})

RECURSIVE victoriesLoop(_, _, _, _)
victoriesLoop(list, i, j, victories) ==
    IF i > Len(list) THEN victories
    ELSE IF j > Len(list) THEN victoriesLoop(list, i + 1, i + 2, victories)
    ELSE victoriesLoop(list, i, j + 1, awardVictories(victories, list[i], list[j]))

calculateMajorityVictories(list) ==
    victoriesLoop(list, 1, 2, [nm \in NameSet(list) |-> 0])

isNumber(s) == s # null

calculateBScoreSum(skater) == SumSeq(SelectSeq(skater.bScores, isNumber))

addComparison(comparisonScores, skater1, skater2) ==
    only({Add(Add(comparisonScores, skater1.name, score1), skater2.name, score2) :
             <<score1, score2>> \in
                 {<<score, numJudges * One - score>> :
                     score \in {pairwiseComparison(skater1, skater2)},
                     numJudges \in {Max(Len(calculateJudgeTotals(skater1)),
                                        Len(calculateJudgeTotals(skater2)))}}})

RECURSIVE directLoop(_, _, _, _)
directLoop(tiedSkaters, i, j, comparisonScores) ==
    IF i > Len(tiedSkaters) THEN comparisonScores
    ELSE IF j > Len(tiedSkaters)
         THEN directLoop(tiedSkaters, i + 1, i + 2, comparisonScores)
    ELSE directLoop(tiedSkaters, i, j + 1,
                    addComparison(comparisonScores, tiedSkaters[i], tiedSkaters[j]))

tieBreakByDirectComparison(tiedSkaters) ==
    directLoop(tiedSkaters, 1, 2, [nm \in NameSet(tiedSkaters) |-> 0])

\* The inner loop of tieBreakByComparisonWithAll: totalScore of one tied skater.
comparisonWithAllOf(tiedSkater, allSkaters) ==
    addUp([k \in DOMAIN allSkaters |->
        IF tiedSkater.name = allSkaters[k].name THEN 0
        ELSE pairwiseComparison(tiedSkater, allSkaters[k])])

RECURSIVE withAllLoop(_, _, _, _)
withAllLoop(tiedSkaters, allSkaters, k, comparisonScores) ==
    IF k > Len(tiedSkaters) THEN comparisonScores
    ELSE withAllLoop(tiedSkaters, allSkaters, k + 1,
            [comparisonScores EXCEPT ![tiedSkaters[k].name] =
                comparisonWithAllOf(tiedSkaters[k], allSkaters)])

tieBreakByComparisonWithAll(tiedSkaters, allSkaters) ==
    withAllLoop(tiedSkaters, allSkaters, 1, [nm \in NameSet(tiedSkaters) |-> 0])


(***************************************************************************)
(* calculateRankings.  A working entry pairs a result object with the      *)
(* index of the input record it was built from (the identity of the        *)
(* JavaScript object); only the rec parts are returned.                    *)
(***************************************************************************)
Absent == <<>>
Present(v) == <<v>>

\* results = skaters.map(...) followed by the loop that fills in
\* majorityVictories and headToHeadResults.
initialResults(list) ==
    LET victories == calculateMajorityVictories(list)
    IN  [i \in DOMAIN list |->
            [src |-> i,
             rec |-> [name |-> list[i].name,
                      aScores |-> list[i].aScores,
                      bScores |-> list[i].bScores,
                      totalScore |-> roundToOneDecimal(calculateTotalScore(list[i])),
                      rank |-> 0,
                      majorityVictories |-> victories[list[i].name],
                      headToHeadResults |-> calculateHeadToHeadDetails(list[i], list),
                      tieBreakLevel |-> Absent,
                      tieBreakValue |-> Absent,
                      tieBreakInfo |-> Absent]]]

compareByVictoriesAscending(a, b) ==
    IF b.majorityVictories # a.majorityVictories
    THEN a.majorityVictories - b.majorityVictories
    ELSE 0

\* The comparator of [...results].sort(...).
compareByVictories(a, b) ==
    IF b.majorityVictories # a.majorityVictories
    THEN b.majorityVictories - a.majorityVictories
    ELSE 0

\* Array.prototype.sort is stable: an element is placed before the first
\* element that the comparator orders strictly after it.
RECURSIVE insertByVictories(_, _)
insertByVictories(s, x) ==
    IF s = <<>> THEN <<x>>
    ELSE IF compareByVictories(x.rec, Head(s).rec) < 0 THEN <<x>> \o s
    ELSE <<Head(s)>> \o insertByVictories(Tail(s), x)

RECURSIVE sortByVictories(_)
sortByVictories(s) ==
    IF s = <<>> THEN <<>>
    ELSE insertByVictories(sortByVictories(SubSeq(s, 1, Len(s) - 1)), s[Len(s)])

\* The comparator of tiedGroup.sort(...); tb holds the three Maps.
sign(k) == IF k > 0 THEN 1 ELSE IF k < 0 THEN -1 ELSE 0

\* The sign of the number the comparator of tiedGroup.sort returns.
compareTied(a, b, tb) ==
    LET compA == tb.comparisonScores[a.name]
        compB == tb.comparisonScores[b.name]
        bSumA == tb.bScoreSums[a.name]
        bSumB == tb.bScoreSums[b.name]
        compAllA == tb.comparisonWithAll[a.name]
        compAllB == tb.comparisonWithAll[b.name]
    IN  IF compB # compA THEN sign(compB - compA)
        ELSE IF bSumB # bSumA THEN compare(bSumB, bSumA)
        ELSE IF compAllB # compAllA THEN sign(compAllB - compAllA)
        ELSE compare(b.totalScore, a.totalScore)

RECURSIVE insertTied(_, _, _)
insertTied(s, x, tb) ==
    IF s = <<>> THEN <<x>>
    ELSE IF compareTied(x.rec, Head(s).rec, tb) < 0 THEN <<x>> \o s
    ELSE <<Head(s)>> \o insertTied(Tail(s), x, tb)

RECURSIVE sortTied(_, _)
sortTied(s, tb) ==
    IF s = <<>> THEN <<>>
    ELSE insertTied(sortTied(SubSeq(s, 1, Len(s) - 1), tb), s[Len(s)], tb)

\* bScoreSums: the Map filled by the loop over tiedSkaters.
RECURSIVE bScoreSumsLoop(_, _, _)
bScoreSumsLoop(tiedSkaters, k, bScoreSums) ==
    IF k > Len(tiedSkaters) THEN bScoreSums
    ELSE bScoreSumsLoop(tiedSkaters, k + 1,
            [bScoreSums EXCEPT ![tiedSkaters[k].name] =
                calculateBScoreSum(tiedSkaters[k])])

tieBreakMaps(tiedGroup, allSkaters) ==
    LET tiedSkaters == [k \in DOMAIN tiedGroup |->
                           [name |-> tiedGroup[k].rec.name,
                            aScores |-> tiedGroup[k].rec.aScores,
                            bScores |-> tiedGroup[k].rec.bScores]]
    IN  [comparisonScores |-> tieBreakByDirectComparison(tiedSkaters),
         bScoreSums |-> bScoreSumsLoop(tiedSkaters, 1,
                            [nm \in NameSet(tiedSkaters) |-> Zero]),
         comparisonWithAll |-> tieBreakByComparisonWithAll(tiedSkaters, allSkaters)]

\* new Set(values).size > 1
hasVariation(values) == Cardinality({values[k] : k \in DOMAIN values}) > 1

\* tiedGroup.find(s => s.name === name)
find(tiedGroup, name) ==
    tiedGroup[CHOOSE k \in DOMAIN tiedGroup :
                 /\ tiedGroup[k].rec.name = name
                 /\ \A m \in 1..(k - 1) : tiedGroup[m].rec.name # name].rec

firstDiffLevel(tiedGroup, tb) ==
    IF hasVariation([k \in DOMAIN tiedGroup |-> tb.comparisonScores[tiedGroup[k].rec.name]])
    THEN "direct-comparison"
    ELSE IF hasVariation([k \in DOMAIN tiedGroup |-> tb.bScoreSums[tiedGroup[k].rec.name]])
    THEN "b-score-sum"
    ELSE IF hasVariation([k \in DOMAIN tiedGroup |-> tb.comparisonWithAll[tiedGroup[k].rec.name]])
    THEN "comparison-all"
    ELSE IF hasVariation([k \in DOMAIN tiedGroup |-> tiedGroup[k].rec.totalScore])
    THEN "total-score"
    ELSE "null"

\* The backward compatibility fields of tiedGroup[k]: <<level, value>> or
\* Absent.
tieBreakSummary(tiedGroup, k, tb) ==
    LET current == tiedGroup[k].rec
        compareWith == IF k < Len(tiedGroup) THEN tiedGroup[k + 1].rec
                       ELSE tiedGroup[k - 1].rec
        currentComp == tb.comparisonScores[current.name]
        compareComp == tb.comparisonScores[compareWith.name]
        currentBSum == tb.bScoreSums[current.name]
        compareBSum == tb.bScoreSums[compareWith.name]
        currentCompAll == tb.comparisonWithAll[current.name]
        compareCompAll == tb.comparisonWithAll[compareWith.name]
    IN  IF currentComp # compareComp THEN Present(<<"direct-comparison", currentComp>>)
        ELSE IF currentBSum # compareBSum THEN Present(<<"b-score-sum", currentBSum>>)
        ELSE IF currentCompAll # compareCompAll
             THEN Present(<<"comparison-all", currentCompAll>>)
        ELSE IF current.totalScore # compareWith.totalScore
             THEN Present(<<"total-score", current.totalScore>>)
        ELSE Absent

\* The tieBreakInfo array built for tiedGroup[k].
buildTieBreakInfo(tiedGroup, k, tb) ==
    LET current == tiedGroup[k].rec
        first == firstDiffLevel(tiedGroup, tb)
        hasDirectCompVariation ==
            hasVariation([m \in DOMAIN tiedGroup |-> tb.comparisonScores[tiedGroup[m].rec.name]])
        hasBScoreSumVariation ==
            hasVariation([m \in DOMAIN tiedGroup |-> tb.bScoreSums[tiedGroup[m].rec.name]])
        hasCompAllVariation ==
            hasVariation([m \in DOMAIN tiedGroup |-> tb.comparisonWithAll[tiedGroup[m].rec.name]])
        hasTotalScoreVariation ==
            hasVariation([m \in DOMAIN tiedGroup |-> tiedGroup[m].rec.totalScore])
        currentComp == tb.comparisonScores[current.name]
        currentBSum == tb.bScoreSums[current.name]
        currentCompAll == tb.comparisonWithAll[current.name]
        still0 == {tiedGroup[m].rec.name : m \in DOMAIN tiedGroup} \ {current.name}
        \* Direct comparison
        reached1 == first = "direct-comparison"
        push1 == reached1 /\ hasDirectCompVariation
        info1 == IF push1
                 THEN <<[level |-> "direct-comparison", value |-> currentComp]>>
                 ELSE <<>>
        still1 == IF push1
                  THEN {nm \in still0 :
                          tb.comparisonScores[find(tiedGroup, nm).name] = currentComp}
                  ELSE still0
        \* B-Score Sum
        reached2 == reached1 \/ first = "b-score-sum"
        push2 == reached2 /\ hasBScoreSumVariation
        info2 == IF push2
                 THEN Append(info1, [level |-> "b-score-sum", value |-> currentBSum])
                 ELSE info1
        still2 == IF push2
                  THEN {nm \in still1 :
                          tb.bScoreSums[find(tiedGroup, nm).name] = currentBSum}
                  ELSE still1
        \* Comparison with all
        reached3 == reached2 \/ first = "comparison-all"
        push3 == reached3 /\ hasCompAllVariation
        info3 == IF push3
                 THEN Append(info2, [level |-> "comparison-all", value |-> currentCompAll])
                 ELSE info2
        still3 == IF push3
                  THEN {nm \in still2 :
                          tb.comparisonWithAll[find(tiedGroup, nm).name] = currentCompAll}
                  ELSE still2
        \* Total score
        reached4 == reached3 \/ first = "total-score"
        push4 == reached4 /\ hasTotalScoreVariation
        info4 == IF push4
                 THEN Append(info3, [level |-> "total-score", value |-> current.totalScore])
                 ELSE info3
    IN  IF push1 /\ still1 = {} THEN info1
        ELSE IF push2 /\ still2 = {} THEN info2
        ELSE IF push3 /\ still3 = {} THEN info3
        ELSE info4

\* tiedGroup[k].rank = currentRank + k (k counted from 0 in the code).
tiedRankShared(currentRank, k) == currentRank

tiedRank(currentRank, k) == currentRank + (k - 1)

\* The else-branch of the rank walk: sort the tied group, assign ranks,
\* attach the tie-break fields.
rankTiedGroup(group, currentRank, allSkaters) ==
    only({[k \in DOMAIN tiedGroup |->
            only({[src |-> tiedGroup[k].src,
                   rec |-> [tiedGroup[k].rec EXCEPT
                              !.rank = tiedRank(currentRank, k),
                              !.tieBreakLevel =
                                  IF summary = Absent THEN Absent
                                  ELSE Present(summary[1][1]),
                              !.tieBreakValue =
                                  IF summary = Absent THEN Absent
                                  ELSE Present(summary[1][2]),
                              !.tieBreakInfo =
                                  Present(buildTieBreakInfo(tiedGroup, k, tb))]] :
                     summary \in {tieBreakSummary(tiedGroup, k, tb)}})] :
          <<tb, tiedGroup>> \in
              {<<maps, sortTied(group, maps)>> :
                  maps \in {tieBreakMaps(group, allSkaters)}}})

\* The inner while loop: j is the first index after i whose
\* majorityVictories differs from sorted[i]'s.
RECURSIVE groupEnd(_, _, _)
groupEnd(sorted, j, currentMV) ==
    IF j <= Len(sorted) /\ sorted[j].rec.majorityVictories = currentMV
    THEN groupEnd(sorted, j + 1, currentMV)
    ELSE j

singletonRankedFromZero(e, currentRank) ==
    [e EXCEPT !.rec.rank = currentRank - 1]

singletonRankedWithTrail(e, currentRank) ==
    [e EXCEPT !.rec.rank = currentRank, !.rec.tieBreakInfo = Present(<<>>)]

\* No tie: tiedGroup[0].rank = currentRank; nothing else is written.
singletonRanked(e, currentRank) == [e EXCEPT !.rec.rank = currentRank]

RECURSIVE rankWalk(_, _, _, _)
rankWalk(sorted, i, currentRank, allSkaters) ==
    IF i > Len(sorted) THEN <<>>
    ELSE only({(IF Len(tiedGroup) = 1
                THEN <<singletonRanked(tiedGroup[1], currentRank)>>
                ELSE rankTiedGroup(tiedGroup, currentRank, allSkaters))
                   \o rankWalk(sorted, j, currentRank + Len(tiedGroup), allSkaters) :
                 <<j, tiedGroup>> \in
                     {<<end, SubSeq(sorted, i, end - 1)>> :
                         end \in {groupEnd(sorted, i, sorted[i].rec.majorityVictories)}}})

rankedEntries(list) ==
    IF Len(list) = 0 THEN <<>>
    ELSE only({rankWalk(sorted, 1, 1, list) :
                 sorted \in {sortByVictories(initialResults(list))}})

calculateRankings(list) ==
    LET e == rankedEntries(list) IN [k \in DOMAIN e |-> e[k].rec]

\* For each output position, the index of the input record it came from.
sourceOrder(list) ==
    LET e == rankedEntries(list) IN [k \in DOMAIN e |-> e[k].src]

(***************************************************************************)
(* parseInput (src/src/utils/parser.ts).  A string is a sequence of        *)
(* one-character strings.  Operators over strings find positions with      *)
(* CHOOSE instead of walking the string, so that the depth of an           *)
(* evaluation does not grow with the length of the string.                 *)
(***************************************************************************)
Digits == <<"0", "1", "2", "3", "4", "5", "6", "7", "8", "9">>

isDigit(c) == \E d \in DOMAIN Digits : Digits[d] = c

digitValue(c) == (CHOOSE d \in DOMAIN Digits : Digits[d] = c) - 1

\* WhiteSpace and LineTerminator of ECMAScript: what String.prototype.trim
\* removes and what \s matches.  U+000B, U+00A0, U+1680 and U+FEFF stand
\* here as themselves, between tab and line feed and after the space;
\* U+2000 to U+200A, U+2028, U+2029, U+202F, U+205F and U+3000 cannot be
\* written in a string of a module.
WhiteSpace == {"\t", "", "\n", "\f", "\r", " ", " ", " ", "﻿"}

isSpace(c) == c \in WhiteSpace

trimStart(str) ==
    IF \A k \in DOMAIN str : isSpace(str[k]) THEN <<>>
    ELSE SubSeq(str,
                CHOOSE k \in DOMAIN str :
                    ~isSpace(str[k]) /\ \A m \in 1..(k - 1) : isSpace(str[m]),
                Len(str))

trimEnd(str) ==
    IF \A k \in DOMAIN str : isSpace(str[k]) THEN <<>>
    ELSE SubSeq(str, 1,
                CHOOSE k \in DOMAIN str :
                    ~isSpace(str[k]) /\ \A m \in (k + 1)..Len(str) : isSpace(str[m]))

trim(str) == trimEnd(trimStart(str))

\* str.split('\n')
split(str) ==
    LET isBreak(k) == k = Len(str) + 1 \/ str[k] = "\n"
        breaks == SelectSeq([k \in 1..(Len(str) + 1) |-> k], isBreak)
    IN  [i \in DOMAIN breaks |->
            SubSeq(str, IF i = 1 THEN 1 ELSE breaks[i - 1] + 1, breaks[i] - 1)]

startsWith(str, prefix) ==
    /\ Len(str) >= Len(prefix)
    /\ SubSeq(str, 1, Len(prefix)) = prefix

\* str.indexOf(c), counted from 1; 0 when c does not occur.
indexOf(str, c) ==
    IF \E k \in DOMAIN str : str[k] = c
    THEN CHOOSE k \in DOMAIN str : str[k] = c /\ \A m \in 1..(k - 1) : str[m] # c
    ELSE 0

\* .replace(/\s+/g, ' '): every run of white space becomes one space.  The
\* first character of a run is written as a space, the others are dropped.
collapseSpaces(str) ==
    LET dropped == ""
        marked == [k \in DOMAIN str |->
                      IF ~isSpace(str[k]) THEN str[k]
                      ELSE IF k > 1 /\ isSpace(str[k - 1]) THEN dropped
                      ELSE " "]
        isKept(c) == c # dropped
    IN  SelectSeq(marked, isKept)

\* .replace(/,/g, '.').replace(/\s+/g, ' ')
normalizeText(str) ==
    collapseSpaces([k \in DOMAIN str |-> IF str[k] = "," THEN "." ELSE str[k]])

\* The number of leading digits of str.
digitRun(str) ==
    IF \A k \in DOMAIN str : isDigit(str[k]) THEN Len(str)
    ELSE (CHOOSE k \in DOMAIN str :
              ~isDigit(str[k]) /\ \A m \in 1..(k - 1) : isDigit(str[m])) - 1

\* The length of the match of /\d+\.?\d*|\.\d+/ at the start of str, 0 if
\* there is none.
matchLength(str) ==
    LET d == digitRun(str)
        rest == SubSeq(str, d + 1, Len(str))
    IN  IF d > 0
        THEN IF rest # <<>> /\ Head(rest) = "."
             THEN d + 1 + digitRun(Tail(rest))
             ELSE d
        ELSE IF str # <<>> /\ Head(str) = "." /\ digitRun(Tail(str)) > 0
             THEN 1 + digitRun(Tail(str))
             ELSE 0

\* The matches of /\d+\.?\d*|\.\d+/g are found from left to right, each
\* search beginning where the match before it ended.  A match of the first
\* alternative begins at a digit that follows neither a digit nor a
\* period, and takes the period behind its digits.  A match of the second
\* alternative begins at any other period that a digit follows.
digitsBegin(str, k) ==
    /\ isDigit(str[k])
    /\ k = 1 \/ ~(isDigit(str[k - 1]) \/ str[k - 1] = ".")

\* The period at k follows digits with which a match began.
periodTaken(str, k) ==
    /\ k > 1
    /\ isDigit(str[k - 1])
    /\ digitsBegin(str, CHOOSE j \in 1..(k - 1) :
                            /\ \A m \in j..(k - 1) : isDigit(str[m])
                            /\ j = 1 \/ ~isDigit(str[j - 1]))

periodBegins(str, k) ==
    /\ str[k] = "."
    /\ k < Len(str)
    /\ isDigit(str[k + 1])
    /\ ~periodTaken(str, k)

\* str.match(/.../g): the successive matches, left to right; the empty
\* sequence stands for null.
matchNumbers(str) ==
    LET beginsMatch(k) == digitsBegin(str, k) \/ periodBegins(str, k)
        starts == SelectSeq([k \in DOMAIN str |-> k], beginsMatch)
    IN  [i \in DOMAIN starts |->
            SubSeq(str, starts[i],
                   starts[i] + matchLength(SubSeq(str, starts[i], Len(str))) - 1)]

RECURSIVE pow10(_)
pow10(k) == IF k = 0 THEN 1 ELSE 10 * pow10(k - 1)

\* n * 10^count
RECURSIVE timesTens(_, _)
timesTens(n, count) ==
    IF count <= 4 THEN natTimes(n, pow10(count))
    ELSE only({timesTens(half, count - count \div 2) :
                  half \in {timesTens(n, count \div 2)}})

\* The natural number written by a run of digits, as limbs.
RECURSIVE naturalValue(_)
naturalValue(str) ==
    IF str = <<>> THEN <<>>
    ELSE IF Len(str) = 1 THEN fromInt(digitValue(str[1]))
    ELSE only({natPlus(timesTens(high, Len(str) - middle), low) :
                  <<middle, high, low>> \in
                      {<<m, naturalValue(SubSeq(str, 1, m)),
                            naturalValue(SubSeq(str, m + 1, Len(str)))>> :
                          m \in {Len(str) \div 2}}})

\* The integer part of n / 10^count; inexact records a remainder.
RECURSIVE divideByTens(_, _, _)
divideByTens(n, count, inexact) ==
    IF count <= 4
    THEN only({[quotient |-> q.quotient, inexact |-> inexact \/ q.remainder # 0] :
                  q \in {natDivide(n, pow10(count))}})
    ELSE only({divideByTens(half.quotient, count - count \div 2, half.inexact) :
                  half \in {divideByTens(n, count \div 2, inexact)}})

\* The double nearest to the decimal number the match writes.  The digits
\* are divided in units of Base^z * 2^-MinExponent: z leaves GuardLimbs
\* limbs and one more for every three fractional digits, or reaches below
\* 2^-MinExponent.
parseFloat(str) ==
    LET d == digitRun(str)
        rest == SubSeq(str, d + 1, Len(str))
        fraction == IF rest # <<>> /\ Head(rest) = "." THEN Tail(rest) ELSE <<>>
    IN  only({roundToDouble(z, q.quotient, q.inexact) :
                 <<z, q>> \in
                     {<<y, divideByTens(shiftLeft(naturalValue(SubSeq(str, 1, d) \o fraction),
                                                  MinExponent - LimbBits * y),
                                        Len(fraction), FALSE)>> :
                         y \in {Max(-1, MinExponent \div LimbBits - GuardLimbs
                                           - Len(fraction) \div 3)}}})

\* String(n) for n >= 0.
RECURSIVE toString(_)
toString(n) ==
    IF n < 10 THEN <<Digits[n + 1]>>
    ELSE toString(n \div 10) \o <<Digits[(n % 10) + 1]>>

sixScoresZeroPadded(numbers) ==
    [k \in 1..6 |-> IF k <= Len(numbers) THEN parseFloat(numbers[k]) ELSE Zero]

\* numbers.slice(0, 6).map(parseFloat), padded with null to six entries.
sixScores(numbers) ==
    [k \in 1..6 |-> IF k <= Len(numbers) THEN parseFloat(numbers[k]) ELSE null]

\* One iteration of the loop over the lines: the value of unnamedCounter
\* after it, and the record pushed, if any.
\* scoresText of a trimmed line: the whole line when it has no colon, else
\* trimmedLine.substring(colonIndex + 1).trim().
scoresText(trimmedLine) ==
    IF indexOf(trimmedLine, ":") = 0 THEN trimmedLine
    ELSE trim(SubSeq(trimmedLine, indexOf(trimmedLine, ":") + 1, Len(trimmedLine)))

parseLine(line, unnamedCounter) ==
    LET trimmedLine == trim(line)
        colonIndex == indexOf(trimmedLine, ":")
        name == IF colonIndex = 0
                THEN <<"S", "k", "a", "t", "e", "r", " ">> \o toString(unnamedCounter)
                ELSE trim(SubSeq(trimmedLine, 1, colonIndex - 1))
        counter == IF colonIndex = 0 THEN unnamedCounter + 1 ELSE unnamedCounter
        numbers == matchNumbers(normalizeText(scoresText(trimmedLine)))
        scores == sixScores(numbers)
    IN  IF trimmedLine = <<>> THEN [counter |-> unnamedCounter, pushed |-> <<>>]
        ELSE IF startsWith(trimmedLine, <<"#">>) \/ startsWith(trimmedLine, <<"/", "/">>)
        THEN [counter |-> unnamedCounter, pushed |-> <<>>]
        ELSE IF numbers = <<>> THEN [counter |-> counter, pushed |-> <<>>]
        ELSE [counter |-> counter,
              pushed |-> <<[name |-> name,
                            aScores |-> SubSeq(scores, 1, 3),
                            bScores |-> SubSeq(scores, 4, 6)]>>]

\* The iterations first to last of the loop over the lines: the entries
\* pair each record pushed with the index of its line, counter is the value
\* of unnamedCounter after them.  The range is halved, so that the depth
\* of the evaluation grows with the logarithm of the number of lines.
RECURSIVE parseLoop(_, _, _, _)
parseLoop(lines, first, last, unnamedCounter) ==
    IF first > last THEN [entries |-> <<>>, counter |-> unnamedCounter]
    ELSE IF first = last
    THEN only({[entries |-> IF step.pushed = <<>> THEN <<>>
                            ELSE <<[line |-> first, rec |-> step.pushed[1]]>>,
                counter |-> step.counter] :
                  step \in {parseLine(lines[first], unnamedCounter)}})
    ELSE only({[entries |-> before.entries \o after.entries, counter |-> after.counter] :
                  <<before, after>> \in
                      {<<b, parseLoop(lines, (first + last) \div 2 + 1, last, b.counter)>> :
                          b \in {parseLoop(lines, first, (first + last) \div 2,
                                           unnamedCounter)}}})

parseEntries(lines) == only({parseLoop(l, 1, Len(l), 1).entries : l \in {lines}})

\* const lines = input.trim().split('\n')
linesOf(text) == split(trim(text))

parseInput(text) ==
    only({[k \in DOMAIN e |-> e[k].rec] : e \in {parseEntries(linesOf(text))}})

(***************************************************************************)
(* buildGraph: the nodes and links of the head-to-head network.  Maps are  *)
(* functions over the names of the collection; a name set twice keeps the  *)
(* value written last.  Sets are sequences without repetition, in          *)
(* insertion order.                                                        *)
(***************************************************************************)
emptyGraph == [nodes |-> <<>>, links |-> <<>>]

getNodeColor(rank) ==
    CASE rank = 1 -> "GOLD"
      [] rank = 2 -> "SILVER"
      [] rank = 3 -> "BRONZE"
      [] OTHER -> "CYAN"

getNodeSize(wins) == 8 * One + (wins * 2)

nodes(list) ==
    [k \in DOMAIN list |->
        [id |-> list[k].name,
         name |-> list[k].name,
         rank |-> list[k].rank,
         wins |-> list[k].majorityVictories,
         color |-> getNodeColor(list[k].rank),
         size |-> getNodeSize(list[k].majorityVictories)]]

elements(seq) == {seq[k] : k \in DOMAIN seq}

lastNamed(list, name) ==
    list[CHOOSE k \in DOMAIN list :
            /\ list[k].name = name
            /\ \A m \in DOMAIN list : m > k => list[m].name # name]

mvMap(list) ==
    [name \in elements([k \in DOMAIN list |-> list[k].name]) |->
        lastNamed(list, name).majorityVictories]

rankMap(list) ==
    [name \in elements([k \in DOMAIN list |-> list[k].name]) |->
        lastNamed(list, name).rank]

\* The Set of opponents with won = true, in the order of the entries.
RECURSIVE victories(_, _, _)
victories(headToHeadResults, k, acc) ==
    IF k > Len(headToHeadResults) THEN acc
    ELSE LET h2h == headToHeadResults[k]
         IN  IF h2h.won /\ h2h.opponent \notin elements(acc)
             THEN victories(headToHeadResults, k + 1, Append(acc, h2h.opponent))
             ELSE victories(headToHeadResults, k + 1, acc)

\* headToHeadResults is optional: a record without it has no such field.
\* An empty list is a value, and gives an empty Set.
hasHeadToHeadResults(skater) == "headToHeadResults" \in DOMAIN skater

\* The Map allLinks: a record without headToHeadResults sets no entry, a
\* name set twice keeps the value written last.
allLinks(list) ==
    only({[name \in elements([k \in DOMAIN linked |-> linked[k].name]) |->
              victories(lastNamed(linked, name).headToHeadResults, 1, <<>>)] :
          linked \in {SelectSeq(list, hasHeadToHeadResults)}})

\* Every intermediate counts, whatever its rank.
hasPathThroughAnyRank(source, target, allLinksMap, ranks) ==
    /\ source \in DOMAIN allLinksMap
    /\ \E k \in DOMAIN allLinksMap[source] :
          LET intermediate == allLinksMap[source][k]
          IN  /\ intermediate # target
              /\ intermediate \in DOMAIN allLinksMap
              /\ target \in elements(allLinksMap[intermediate])

\* ranks is the rankMap the closure reads; a rank of a name that is not in
\* the Map is undefined and compares false.
hasPathThrough(source, target, allLinksMap, ranks) ==
    /\ source \in DOMAIN allLinksMap
    /\ \E k \in DOMAIN allLinksMap[source] :
          LET intermediate == allLinksMap[source][k]
          IN  /\ intermediate # target
              /\ intermediate \in DOMAIN ranks
              /\ target \in DOMAIN ranks
              /\ ranks[intermediate] > ranks[source]
              /\ ranks[intermediate] < ranks[target]
              /\ intermediate \in DOMAIN allLinksMap
              /\ target \in elements(allLinksMap[intermediate])

\* [...results].sort((a, b) => a.rank - b.rank), a stable sort.
RECURSIVE insertByRank(_, _)
insertByRank(sorted, r) ==
    IF sorted = <<>> THEN <<r>>
    ELSE IF r.rank - Head(sorted).rank < 0
         THEN <<r>> \o sorted
         ELSE <<Head(sorted)>> \o insertByRank(Tail(sorted), r)

RECURSIVE sortedSkaters(_)
sortedSkaters(list) ==
    IF list = <<>> THEN <<>>
    ELSE insertByRank(sortedSkaters(SubSeq(list, 1, Len(list) - 1)), list[Len(list)])

necessaryVictories(name, allLinksMap, ranks) ==
    LET necessary(target) == ~hasPathThrough(name, target, allLinksMap, ranks)
    IN  SelectSeq(allLinksMap[name], necessary)

\* The entries of the Map reducedLinks in insertion order: one per name
\* that has an entry in allLinks, in the order of sortedSkaters.
RECURSIVE reducedLinks(_, _, _, _)
reducedLinks(sorted, k, allLinksMap, ranks) ==
    IF k > Len(sorted) THEN <<>>
    ELSE LET name == sorted[k].name
             seen == \E m \in 1..(k - 1) : sorted[m].name = name
             rest == reducedLinks(sorted, k + 1, allLinksMap, ranks)
         IN  IF name \notin DOMAIN allLinksMap \/ seen THEN rest
             ELSE <<[source |-> name,
                     targets |-> necessaryVictories(name, allLinksMap, ranks)]>> \o rest

RECURSIVE links(_, _)
links(reduced, k) ==
    IF k > Len(reduced) THEN <<>>
    ELSE [m \in DOMAIN reduced[k].targets |->
             [source |-> reduced[k].source, target |-> reduced[k].targets[m]]]
         \o links(reduced, k + 1)

buildGraph(list) ==
    [nodes |-> nodes(list),
     links |-> links(reducedLinks(sortedSkaters(list), 1, allLinks(list), rankMap(list)), 1)]

(***************************************************************************)
(* The state machine: an input collection is assembled record by record,   *)
(* then calculateRankings is applied to it.                                *)
(***************************************************************************)
ScoreArrays == [1..NumJudges -> MarkOrNull]

NameList == <<"A", "B", "C", "D", "E">>

\* Names are used by the code only through equality: a new record takes a
\* name already in use or the first unused one.
NextNames(list) ==
    NameSet(list) \cup {NameList[Cardinality(NameSet(list)) + 1]}

\* The number of sixteenths of a mark of Marks, and of the marks of an array.
sixteenthsOf(mark) == CHOOSE k \in 0..MostPoints : MarkOfSixteenths[k] = mark

pointsOf(arr) ==
    addUp([i \in DOMAIN arr |-> IF arr[i] = null THEN 0 ELSE sixteenthsOf(arr[i])])
missingOf(arr) == Cardinality({i \in DOMAIN arr : arr[i] = null})

RECURSIVE totalPoints(_)
totalPoints(list) ==
    IF list = <<>> THEN 0
    ELSE pointsOf(Head(list).aScores) + pointsOf(Head(list).bScores)
            + totalPoints(Tail(list))

RECURSIVE totalMissing(_)
totalMissing(list) ==
    IF list = <<>> THEN 0
    ELSE missingOf(Head(list).aScores) + missingOf(Head(list).bScores)
            + totalMissing(Tail(list))

Init ==
    /\ input = <<>>
    /\ skaters = <<>>
    /\ results = <<>>
    /\ order = <<>>
    /\ graph = emptyGraph
    /\ pc = "input"

AddSkaterWithin(maxSkaters, maxPoints, maxMissing) ==
    /\ pc = "input"
    /\ Len(skaters) < maxSkaters
    /\ LET points == totalPoints(skaters)
           missing == totalMissing(skaters)
       IN  \E a \in ScoreArrays :
              /\ points + pointsOf(a) <= maxPoints
              /\ missing + missingOf(a) <= maxMissing
              /\ \E b \in ScoreArrays :
                    /\ points + pointsOf(a) + pointsOf(b) <= maxPoints
                    /\ missing + missingOf(a) + missingOf(b) <= maxMissing
                    /\ \E nm \in NextNames(skaters) :
                          skaters' = Append(skaters,
                              [name |-> nm, aScores |-> a, bScores |-> b])
    /\ UNCHANGED <<input, results, order, graph, pc>>

AddSkater == AddSkaterWithin(MaxSkaters, MaxPoints, MaxMissing)

AddSparseSkater == AddSkaterWithin(PairSkaters, PairPoints, PairMissing)

\* A record with a name of its own and a mark from every judge.
AddDistinctSkater ==
    /\ pc = "input"
    /\ Len(skaters) < GroupSkaters
    /\ LET points == totalPoints(skaters)
       IN  \E a \in ScoreArrays :
              /\ missingOf(a) = 0
              /\ points + pointsOf(a) <= GroupPoints
              /\ \E b \in ScoreArrays :
                    /\ missingOf(b) = 0
                    /\ points + pointsOf(a) + pointsOf(b) <= GroupPoints
                    /\ skaters' = Append(skaters,
                          [name |-> NameList[Len(skaters) + 1],
                           aScores |-> a, bScores |-> b])
    /\ UNCHANGED <<input, results, order, graph, pc>>

\* The double nearest to k / 10.
tenths(k) == quotient(k, 10)

\* Mark sequences whose totals lie on both sides of a rounding boundary:
\* 1 and 2 sixteenths round to 0.1, 4 and 5 sixteenths to 0.3.  The last two
\* have a first judge total of 0.3 in real numbers; as doubles 0.2 + 0.1 is
\* larger than 0 + 0.3.
RoundingShapes ==
    { [aScores |-> <<Zero, Zero>>, bScores |-> <<Zero, Zero>>],
      [aScores |-> <<sixteenths(2), Zero>>, bScores |-> <<Zero, Zero>>],
      [aScores |-> <<Zero, sixteenths(1)>>, bScores |-> <<Zero, Zero>>],
      [aScores |-> <<sixteenths(5), Zero>>, bScores |-> <<Zero, Zero>>],
      [aScores |-> <<Zero, sixteenths(4)>>, bScores |-> <<Zero, Zero>>],
      [aScores |-> <<sixteenths(1), sixteenths(1)>>, bScores |-> <<Zero, Zero>>],
      [aScores |-> <<Zero, Zero>>, bScores |-> <<Zero, sixteenths(1)>>],
      [aScores |-> <<tenths(2), Zero>>, bScores |-> <<tenths(1), Zero>>],
      [aScores |-> <<Zero, Zero>>, bScores |-> <<tenths(3), Zero>>] }

AddShapedSkater ==
    /\ pc = "input"
    /\ Len(skaters) < RoundingSkaters
    /\ \E shape \in RoundingShapes : \E nm \in NextNames(skaters) :
          skaters' = Append(skaters,
              [name |-> nm, aScores |-> shape.aScores, bScores |-> shape.bScores])
    /\ UNCHANGED <<input, results, order, graph, pc>>

RankSortingInput ==
    /\ pc = "input"
    /\ \E e \in {rankedEntries(skaters)} :
          /\ results' = [k \in DOMAIN e |-> e[k].rec]
          /\ order' = [k \in DOMAIN e |-> e[k].src]
          /\ skaters' = [k \in DOMAIN e |-> skaters[e[k].src]]
    /\ pc' = "done"
    /\ UNCHANGED <<input, graph>>

\* One call of calculateRankings(skaters).  The function reads its argument
\* and writes only objects it has created itself; it has no state outside
\* its locals.
Rank ==
    /\ pc = "input"
    /\ \E e \in {rankedEntries(skaters)} :
          /\ results' = [k \in DOMAIN e |-> e[k].rec]
          /\ order' = [k \in DOMAIN e |-> e[k].src]
    /\ pc' = "done"
    /\ UNCHANGED <<input, skaters, graph>>

Next == AddSkater \/ Rank

Spec == Init /\ [][Next]_vars

NextMissing == AddSparseSkater \/ Rank

SpecMissing == Init /\ [][NextMissing]_vars

NextRounding == AddShapedSkater \/ Rank

SpecRounding == Init /\ [][NextRounding]_vars

NextGroup == AddDistinctSkater \/ Rank

SpecGroup == Init /\ [][NextGroup]_vars

(***************************************************************************)
(* A result collection with distinct names and distinct ranks is           *)
(* assembled record by record, then buildGraph is applied to it.  A record *)
(* comes without headToHeadResults or with one entry per other record, as  *)
(* calculateRankings fills it; entries are turned into victories, and      *)
(* further entries are appended: against a name that is not in the         *)
(* collection, against the record's own name, or a second entry against    *)
(* the same opponent.                                                      *)
(***************************************************************************)
InitGraph ==
    /\ input = <<>>
    /\ skaters = <<>>
    /\ results = <<>>
    /\ order = <<>>
    /\ graph = emptyGraph
    /\ pc = "collect"

\* The entries of all lists: <<x, k>> is entry k of record x.
entriesOf(list) ==
    UNION {{<<x, k>> : k \in DOMAIN list[x].headToHeadResults} :
              x \in {y \in DOMAIN list : hasHeadToHeadResults(list[y])}}

wonEntries(list) ==
    {e \in entriesOf(list) : list[e[1]].headToHeadResults[e[2]].won}

\* The number of entries beyond one per other record.
extraEntries(list) ==
    Cardinality(entriesOf(list))
        - Cardinality({y \in DOMAIN list : hasHeadToHeadResults(list[y])}) * (Len(list) - 1)

AddResult ==
    /\ pc = "collect"
    /\ Len(results) < GraphNodes
    /\ extraEntries(results) > 0 => Len(results) < GraphExtraNodes
    /\ \E rank \in 1..GraphNodes : \E withResults \in BOOLEAN :
          /\ \A k \in DOMAIN results : results[k].rank # rank
          /\ LET name == NameList[Len(results) + 1]
                 lost(opponent) == [opponent |-> opponent, won |-> FALSE]
                 skater == [name |-> name, rank |-> rank, majorityVictories |-> 0]
             IN  results' = Append(
                     [k \in DOMAIN results |->
                         IF hasHeadToHeadResults(results[k])
                         THEN [results[k] EXCEPT
                                  !.headToHeadResults = Append(@, lost(name))]
                         ELSE results[k]],
                     IF withResults
                     THEN [name |-> name,
                           rank |-> rank,
                           majorityVictories |-> 0,
                           headToHeadResults |->
                               [k \in DOMAIN results |-> lost(results[k].name)]]
                     ELSE skater)
    /\ UNCHANGED <<input, skaters, order, graph, pc>>

RecordVictory ==
    /\ pc = "collect"
    /\ Cardinality(wonEntries(results)) < GraphWins
    /\ \E e \in entriesOf(results) \ wonEntries(results) :
          results' = [results EXCEPT
                         ![e[1]].headToHeadResults[e[2]].won = TRUE,
                         ![e[1]].majorityVictories = @ + One]
    /\ UNCHANGED <<input, skaters, order, graph, pc>>

\* An entry names one of the names of the largest collection or one name
\* more.
AddEntry ==
    /\ pc = "collect"
    /\ Len(results) <= GraphExtraNodes
    /\ extraEntries(results) < GraphExtras
    /\ \E x \in DOMAIN results : \E opponent \in {NameList[k] : k \in 1..(GraphNodes + 1)} : \E won \in BOOLEAN :
          /\ hasHeadToHeadResults(results[x])
          /\ won => Cardinality(wonEntries(results)) < GraphWins
          /\ results' = [results EXCEPT
                            ![x].headToHeadResults =
                                Append(@, [opponent |-> opponent, won |-> won])]
    /\ UNCHANGED <<input, skaters, order, graph, pc>>

BuildGraph ==
    /\ pc = "collect"
    /\ graph' = buildGraph(results)
    /\ pc' = "drawn"
    /\ UNCHANGED <<input, skaters, results, order>>

NextGraph == AddResult \/ RecordVictory \/ AddEntry \/ BuildGraph

SpecGraph == InitGraph /\ [][NextGraph]_vars

(***************************************************************************)
(* The input text is typed line by line, each line ended by a line feed,    *)
(* then parseInput is applied.  The lines hold, besides the space, a tab,  *)
(* a carriage return, U+000B and U+00A0.                                   *)
(***************************************************************************)
LineTexts ==
    { <<>>,
      <<" ">>,
      <<"\t", " ">>,
      <<"#", " ", "1">>,
      <<"\t", "#", "1">>,
      <<"/", "/", "1">>,
      <<"/", "1">>,
      <<"x">>,
      <<"A", ":">>,
      <<"A", ":", "1">>,
      <<"A", "\t", ":", "", "1", "\t", "\t", "2", "\r">>,
      <<" ", "B", " ", ":", " ", "1", ",", "5", " ", "u", " ", ".", "5", " ">>,
      <<"C", ":", "1", " ", "2", " ", "3", " ", "4", " ", "5", " ", "6", " ", "7">>,
      <<"1", " ", "5", ".">>,
      <<"1", ",", "\t", "2", "\r">>,
      <<" ", "2", ",", "5", " ", "x", "1", " ", "0", " ", "3">>,
      <<"1", ":", "5">>,
      <<"S", "k", "a", "t", "e", "r", " ", "1", ":", "5">> }

InitText ==
    /\ input = <<>>
    /\ skaters = <<>>
    /\ results = <<>>
    /\ order = <<>>
    /\ graph = emptyGraph
    /\ pc = "text"

AddLine ==
    /\ pc = "text"
    /\ Cardinality({k \in DOMAIN input : input[k] = "\n"}) < MaxLines
    /\ \E line \in LineTexts : input' = input \o line \o <<"\n">>
    /\ UNCHANGED <<skaters, results, order, graph, pc>>

Parse ==
    /\ pc = "text"
    /\ skaters' = parseInput(input)
    /\ pc' = "parsed"
    /\ UNCHANGED <<input, results, order, graph>>

NextParse == AddLine \/ Parse

SpecParse == InitText /\ [][NextParse]_vars

TypeOK ==
    /\ pc \in {"text", "parsed", "input", "done", "collect", "drawn"}
    /\ pc = "done" => Len(results) = Len(skaters)


(***************************************************************************)
(* Vocabulary of the properties.  Competitors are identified by their      *)
(* position in the input collection.                                       *)
(***************************************************************************)
Done == pc = "done"
N == Len(skaters)
Competitors == DOMAIN skaters

\* The output position, and the result record, of the competitor at input
\* position i.
posOf(i) == CHOOSE k \in DOMAIN order : order[k] = i
recOf(i) == results[posOf(i)]

PairScore(x, y) == pairwiseComparison(skaters[x], skaters[y])

Wins(x) == {y \in Competitors \ {x} : PairScore(x, y) > PairScore(y, x)}
Draws(x) == {y \in Competitors \ {x} : PairScore(x, y) = PairScore(y, x)}

RECURSIVE SumOver(_, _)
SumOver(f, S) ==
    IF S = {} THEN 0
    ELSE LET x == CHOOSE x \in S : TRUE IN f[x] + SumOver(f, S \ {x})

DistinctNames == \A x, y \in Competitors : x # y => skaters[x].name # skaters[y].name

\* The competitors that share the majorityVictories reported for x.
GroupOf(x) ==
    {y \in Competitors : recOf(y).majorityVictories = recOf(x).majorityVictories}

(***************************************************************************)
(* C1.  The majorityVictories reported for every competitor X is the       *)
(* number of other competitors whose pair score X exceeds, plus one half   *)
(* of the number of other competitors with an equal pair score.            *)
(***************************************************************************)
C1_MajorityVictoriesCount ==
    Done => \A x \in Competitors :
        recOf(x).majorityVictories
            = One * Cardinality(Wins(x)) + Half * Cardinality(Draws(x))

\* The same statement for collections in which every name is used once.
C1_DistinctNames ==
    (Done /\ DistinctNames) => \A x \in Competitors :
        recOf(x).majorityVictories
            = One * Cardinality(Wins(x)) + Half * Cardinality(Draws(x))

(***************************************************************************)
(* C2.  The ranks of the result are 1..n, each used once, and the record   *)
(* at output position k (counted from 1 here) has rank k; also for the     *)
(* members of a tied group that no criterion separates.                    *)
(***************************************************************************)
C2_SequentialRanks ==
    Done => /\ Len(results) = N
            /\ \A k \in DOMAIN results : results[k].rank = k
            /\ {results[k].rank : k \in DOMAIN results} = 1..N

\* Two neighbours of one tied group that are equal on all four criteria
\* (their trail of tie-break records is empty), ranked k and k + 1.
C2_Witness ==
    /\ Done
    /\ \E k \in DOMAIN results :
          /\ k + 1 \in DOMAIN results
          /\ results[k].majorityVictories = results[k + 1].majorityVictories
          /\ results[k].tieBreakInfo = Present(<<>>)
          /\ results[k + 1].tieBreakInfo = Present(<<>>)
          /\ greater(results[k].totalScore, Zero)
          /\ results[k + 1].rank = results[k].rank + 1

(***************************************************************************)
(* C3.  A competitor with more majorityVictories has the better (smaller)  *)
(* rank: in rank order the output is non-increasing in majorityVictories.  *)
(***************************************************************************)
C3_RankFollowsVictories ==
    Done => /\ \A k, m \in DOMAIN results :
                  results[k].majorityVictories > results[m].majorityVictories
                      => results[k].rank < results[m].rank
            /\ \A k, m \in DOMAIN results :
                  results[k].rank < results[m].rank
                      => results[k].majorityVictories >= results[m].majorityVictories

\* Three distinct majorityVictories values, the input not already in rank
\* order.
C3_Witness ==
    /\ Done
    /\ N = 3
    /\ results[1].majorityVictories > results[2].majorityVictories
    /\ results[2].majorityVictories > results[3].majorityVictories
    /\ order[1] = 3

(***************************************************************************)
(* C4.  Conservation: the majorityVictories of the n result records add    *)
(* up to n * (n - 1) / 2, whether or not the names are unique.             *)
(***************************************************************************)
C4_Conservation ==
    Done => 2 * SumOver([k \in DOMAIN results |-> results[k].majorityVictories],
                        DOMAIN results)
                = One * N * (N - 1)

(***************************************************************************)
(* C5.  Range: every reported majorityVictories is a multiple of 0.5 in    *)
(* [0, n - 1], whether or not the names are unique.                        *)
(***************************************************************************)
C5_Range ==
    Done => \A k \in DOMAIN results :
        /\ results[k].majorityVictories % Half = 0
        /\ results[k].majorityVictories >= 0
        /\ results[k].majorityVictories <= One * (N - 1)

(***************************************************************************)
(* C6.  Head-to-head reciprocity.  The entry of X against Y is the entry   *)
(* of X's headToHeadResults that carries Y's identifier (its name).  For   *)
(* every two competitors both entries exist, and the skaterVotes of each   *)
(* equals the opponentVotes of the other.                                  *)
(***************************************************************************)
\* list.find(h => h.opponent === name): the index of the first match, 0 if
\* there is none.
entryIndex(list, name) ==
    IF \E k \in DOMAIN list : list[k].opponent = name
    THEN CHOOSE k \in DOMAIN list :
            /\ list[k].opponent = name
            /\ \A m \in 1..(k - 1) : list[m].opponent # name
    ELSE 0

hasEntry(x, y) == entryIndex(recOf(x).headToHeadResults, skaters[y].name) # 0

entry(x, y) ==
    recOf(x).headToHeadResults[entryIndex(recOf(x).headToHeadResults, skaters[y].name)]

Reciprocal(x, y) ==
    /\ hasEntry(x, y)
    /\ hasEntry(y, x)
    /\ entry(x, y).skaterVotes = entry(y, x).opponentVotes
    /\ entry(x, y).opponentVotes = entry(y, x).skaterVotes

C6_Reciprocity ==
    Done => \A x, y \in Competitors : x # y => Reciprocal(x, y)

\* The same statement for collections in which every name is used once.
C6_DistinctNames ==
    (Done /\ DistinctNames) => \A x, y \in Competitors : x # y => Reciprocal(x, y)

\* Reciprocal entries with a judge that votes for neither side and a
\* competitor with missing marks.
C6_DistinctNamesWitness ==
    /\ Done
    /\ DistinctNames
    /\ \E x, y \in Competitors :
          /\ x # y
          /\ Reciprocal(x, y)
          /\ entry(x, y).skaterVotes = 1
          /\ entry(x, y).opponentVotes = 0
          /\ effectiveCount(skaters[x]) # effectiveCount(skaters[y])

(***************************************************************************)
(* C7.  PairScore reciprocity: for every two competitors X and Y,          *)
(* pairwiseComparison(X, Y) lies in [0, numJudges] and                     *)
(* pairwiseComparison(X, Y) + pairwiseComparison(Y, X) = numJudges, with   *)
(* numJudges = max(effectiveCount(X), effectiveCount(Y)); so the score     *)
(* recomputed for Y against X is the complement numJudges - PairScore(X,Y) *)
(* that calculateMajorityVictories and tieBreakByDirectComparison use.     *)
(***************************************************************************)
pairJudges(x, y) == Max(effectiveCount(skaters[x]), effectiveCount(skaters[y]))

C7_PairScoreReciprocity ==
    Done => \A x, y \in Competitors :
        /\ PairScore(x, y) >= 0
        /\ PairScore(x, y) <= One * pairJudges(x, y)
        /\ PairScore(x, y) + PairScore(y, x) = One * pairJudges(x, y)
        /\ PairScore(y, x) = One * pairJudges(x, y) - PairScore(x, y)

\* Two competitors with different effective judge counts and an unequal
\* split of the judges.
C7_Witness ==
    /\ Done
    /\ \E x, y \in Competitors :
          /\ effectiveCount(skaters[x]) < effectiveCount(skaters[y])
          /\ effectiveCount(skaters[x]) > 0
          /\ PairScore(x, y) > PairScore(y, x)
          /\ PairScore(x, y) + PairScore(y, x) = One * pairJudges(x, y)

(***************************************************************************)
(* C8.  compareSkatersByJudge(totalA, bA, totalB, bB) is 1 when            *)
(* totalA > totalB, 0 when totalB > totalA; for equal totals it is 1 when  *)
(* bA > bB, 0 when bB > bA, and 0.5 only when both the totals and the B    *)
(* marks are equal; compare(A, B) + compare(B, A) = 1.  The arguments      *)
(* range over the judge totals and B marks of the ranked collection.       *)
(***************************************************************************)
JudgeTotalsSeen ==
    {plus(OrZero(skaters[x].aScores, i), OrZero(skaters[x].bScores, i)) :
        x \in Competitors, i \in 1..NumJudges}

BMarksSeen ==
    {OrZero(skaters[x].bScores, i) : x \in Competitors, i \in 1..NumJudges}

C8_JudgeComparator ==
    Done => \A tA, tB \in JudgeTotalsSeen : \A bA, bB \in BMarksSeen :
        LET c == compareSkatersByJudge(tA, bA, tB, bB)
        IN  /\ greater(tA, tB) => c = One
            /\ greater(tB, tA) => c = 0
            /\ (tA = tB /\ greater(bA, bB)) => c = One
            /\ (tA = tB /\ greater(bB, bA)) => c = 0
            /\ (tA = tB /\ bA = bB) => c = Half
            /\ c = Half => (tA = tB /\ bA = bB)
            /\ c + compareSkatersByJudge(tB, bB, tA, bA) = One

\* A judge who gives two competitors the same total and different B marks,
\* in a collection that also has unequal totals.
C8_Witness ==
    /\ Done
    /\ Cardinality(JudgeTotalsSeen) >= 2
    /\ \E x, y \in Competitors : \E i \in 1..NumJudges :
          /\ x # y
          /\ hasEntry(x, y)
          /\ skaters[x].aScores[i] # null /\ skaters[x].bScores[i] # null
          /\ skaters[y].aScores[i] # null /\ skaters[y].bScores[i] # null
          /\ plus(skaters[x].aScores[i], skaters[x].bScores[i])
                = plus(skaters[y].aScores[i], skaters[y].bScores[i])
          /\ greater(skaters[x].bScores[i], skaters[y].bScores[i])
          /\ entry(x, y).skaterVotes >= 1

(***************************************************************************)
(* The tie-break values of a competitor, computed from the definitions:    *)
(* G is the group of competitors that share X's majorityVictories, U the   *)
(* whole collection.                                                       *)
(***************************************************************************)
pairScoresOf(x) == [y \in Competitors |-> PairScore(x, y)]

directValue(x) == SumOver(pairScoresOf(x), GroupOf(x) \ {x})
allValue(x) == SumOver(pairScoresOf(x), Competitors \ {x})
outsideValue(x) == SumOver(pairScoresOf(x), Competitors \ GroupOf(x))

tupleOf(x) ==
    <<directValue(x), calculateBScoreSum(skaters[x]), allValue(x),
      recOf(x).totalScore>>

\* Levels 2 and 4 of a tuple are doubles, levels 1 and 3 sums of pair scores.
LexGreater(s, t) ==
    \E k \in 1..4 : /\ \A m \in 1..(k - 1) : s[m] = t[m]
                    /\ IF k \in {2, 4} THEN greater(s[k], t[k]) ELSE s[k] > t[k]

LexOrdered(x, y) ==
    /\ recOf(x).rank < recOf(y).rank
          => (tupleOf(x) = tupleOf(y) \/ LexGreater(tupleOf(x), tupleOf(y)))
    /\ LexGreater(tupleOf(x), tupleOf(y)) => recOf(x).rank < recOf(y).rank

\* The Maps the code builds for the tied group of x: the group is the run
\* of equal majorityVictories in the array sorted by majorityVictories.
sortedEntries == sortByVictories(initialResults(skaters))

inGroupOf(x, e) == e.rec.majorityVictories = recOf(x).majorityVictories

mapsOf(x) ==
    LET member(e) == inGroupOf(x, e)
    IN  tieBreakMaps(SelectSeq(sortedEntries, member), skaters)

(***************************************************************************)
(* C9.  Within every group of competitors that share the same              *)
(* majorityVictories the output is in descending lexicographic order of    *)
(* the tuple (direct-comparison value, B-score sum, comparison-all value,  *)
(* rounded totalScore): a competitor ranked before another has a tuple     *)
(* greater than or equal to the other's, and a strictly greater tuple      *)
(* always has the better rank.                                             *)
(***************************************************************************)
C9_LexicographicOrder ==
    Done => \A x \in Competitors : \A y \in GroupOf(x) \ {x} : LexOrdered(x, y)

\* The same statement for collections in which every name is used once.
C9_DistinctNames ==
    (Done /\ DistinctNames) =>
        \A x \in Competitors : \A y \in GroupOf(x) \ {x} : LexOrdered(x, y)

\* A group of three that the sort reorders, with two members separated
\* by a level after the first.
C9_DistinctNamesWitness ==
    /\ Done
    /\ DistinctNames
    /\ \E x \in Competitors : \E y \in GroupOf(x) \ {x} :
          /\ LexOrdered(x, y)
          /\ x > y
          /\ recOf(x).rank < recOf(y).rank
          /\ directValue(x) = directValue(y)

(***************************************************************************)
(* C10.  For a tied group G inside the collection U, the direct-comparison *)
(* value of X in G is the sum of PairScore(X, Y) over the Y of G other     *)
(* than X, the comparison-all value of X is the sum of PairScore(X, Y)     *)
(* over every Y of U other than X, and the two differ by the sum of        *)
(* PairScore(X, Y) over the Y of U outside G.                              *)
(***************************************************************************)
TieBreakValuesOf(x) ==
    /\ mapsOf(x).comparisonScores[skaters[x].name] = directValue(x)
    /\ mapsOf(x).comparisonWithAll[skaters[x].name] = allValue(x)
    /\ mapsOf(x).comparisonWithAll[skaters[x].name]
          - mapsOf(x).comparisonScores[skaters[x].name] = outsideValue(x)

C10_TieBreakValues ==
    Done => \A x \in Competitors :
        Cardinality(GroupOf(x)) >= 2 => TieBreakValuesOf(x)

\* The same statement for collections in which every name is used once.
C10_DistinctNames ==
    (Done /\ DistinctNames) => \A x \in Competitors :
        Cardinality(GroupOf(x)) >= 2 => TieBreakValuesOf(x)

\* A tied pair with a third competitor outside the group that one of the
\* pair beats.
C10_DistinctNamesWitness ==
    /\ Done
    /\ DistinctNames
    /\ \E x \in Competitors :
          /\ Cardinality(GroupOf(x)) = 2
          /\ TieBreakValuesOf(x)
          /\ outsideValue(x) > One

(***************************************************************************)
(* C11.  Competitors with equal majorityVictories that are equal on all    *)
(* four tie-break criteria (direct comparison, B-score sum, comparison     *)
(* with all, total score) remain tied: they receive the same rank number.  *)
(***************************************************************************)
C11_SharedRank ==
    Done => \A x \in Competitors : \A y \in GroupOf(x) \ {x} :
        tupleOf(x) = tupleOf(y) => recOf(x).rank = recOf(y).rank

\* What the code does instead: equal members get consecutive ranks in
\* input order.
C11_ConsecutiveRanks ==
    (Done /\ DistinctNames) => \A x \in Competitors : \A y \in GroupOf(x) \ {x} :
        (tupleOf(x) = tupleOf(y) /\ x < y) => recOf(x).rank < recOf(y).rank

(***************************************************************************)
(* C12.  Degenerate sizes: an empty input gives an empty result; a single  *)
(* competitor gives exactly one record with majorityVictories 0, rank 1,   *)
(* an empty head-to-head list and tieBreakLevel, tieBreakValue and         *)
(* tieBreakInfo all absent.                                                *)
(***************************************************************************)
C12_DegenerateSizes ==
    Done => /\ N = 0 => results = <<>>
            /\ N = 1 => /\ Len(results) = 1
                        /\ results[1].majorityVictories = 0
                        /\ results[1].rank = 1
                        /\ results[1].headToHeadResults = <<>>
                        /\ results[1].tieBreakLevel = Absent
                        /\ results[1].tieBreakValue = Absent
                        /\ results[1].tieBreakInfo = Absent

\* A single competitor with marks and a missing entry has been ranked.
C12_Witness ==
    /\ Done
    /\ N = 1
    /\ Len(results) = 1
    /\ greater(results[1].totalScore, Zero)
    /\ totalMissing(skaters) > 0

\* The empty collection has been ranked.
C12_EmptyWitness == Done /\ N = 0 /\ results = <<>>

(***************************************************************************)
(* C13.  For every input collection of n competitors, names unique or      *)
(* not, the head-to-head list of every result record has exactly n - 1     *)
(* entries, one for each other competitor of the input.                    *)
(***************************************************************************)
C13_HeadToHeadComplete ==
    Done => \A x \in Competitors :
        /\ Len(recOf(x).headToHeadResults) = N - 1
        /\ \A y \in Competitors \ {x} : hasEntry(x, y)

\* The same statement for collections in which every name is used once.
C13_DistinctNames ==
    (Done /\ DistinctNames) => \A x \in Competitors :
        /\ Len(recOf(x).headToHeadResults) = N - 1
        /\ \A y \in Competitors \ {x} : hasEntry(x, y)

(***************************************************************************)
(* C14.  In every head-to-head entry of X against Y, skaterVotes is the    *)
(* number of judge indices below numJudges at which the comparator,        *)
(* applied to the two competitors' marks of that judge, strictly favours   *)
(* X, opponentVotes the number at which it strictly favours Y; a tied      *)
(* judge counts for neither; won is true exactly when                      *)
(* skaterVotes > opponentVotes; skaterVotes + opponentVotes <= numJudges   *)
(* with equality exactly when no judge is tied.                            *)
(***************************************************************************)
\* The k-th entry of x's list is against the k-th competitor, in input
\* order, whose name differs from x's.
opponentsOf(x) == {y \in Competitors : skaters[y].name # skaters[x].name}

opponentAt(x, k) ==
    CHOOSE y \in opponentsOf(x) :
        Cardinality({m \in opponentsOf(x) : m <= y}) = k

judgeVerdict(x, y, i) ==
    compareSkatersByJudge(
        plus(OrZero(skaters[x].aScores, i), OrZero(skaters[x].bScores, i)),
        OrZero(skaters[x].bScores, i),
        plus(OrZero(skaters[y].aScores, i), OrZero(skaters[y].bScores, i)),
        OrZero(skaters[y].bScores, i))

VotesTallied(e, x, y) ==
    LET judges == 1..pairJudges(x, y)
        tied == {i \in judges : judgeVerdict(x, y, i) = Half}
    IN  /\ e.opponent = skaters[y].name
        /\ e.skaterVotes = Cardinality({i \in judges : judgeVerdict(x, y, i) = One})
        /\ e.opponentVotes = Cardinality({i \in judges : judgeVerdict(x, y, i) = 0})
        /\ e.won = (e.skaterVotes > e.opponentVotes)
        /\ e.skaterVotes + e.opponentVotes <= pairJudges(x, y)
        /\ (e.skaterVotes + e.opponentVotes = pairJudges(x, y)) = (tied = {})

C14_VoteTallies ==
    Done => \A x \in Competitors :
        /\ Len(recOf(x).headToHeadResults) = Cardinality(opponentsOf(x))
        /\ \A k \in DOMAIN recOf(x).headToHeadResults :
              VotesTallied(recOf(x).headToHeadResults[k], x, opponentAt(x, k))

\* An entry with one vote for the competitor, none for the opponent and a
\* tied judge, between competitors with different effective judge counts.
C14_Witness ==
    /\ Done
    /\ \E x \in Competitors : \E k \in DOMAIN recOf(x).headToHeadResults :
          LET e == recOf(x).headToHeadResults[k]
              y == opponentAt(x, k)
          IN  /\ VotesTallied(e, x, y)
              /\ e.skaterVotes = 1
              /\ e.opponentVotes = 0
              /\ e.won
              /\ pairJudges(x, y) = 2
              /\ effectiveCount(skaters[x]) # effectiveCount(skaters[y])

(***************************************************************************)
(* C15.  For every competitor and any pattern of missing entries,          *)
(* totalScore is the one-decimal rounding of the sum, over every judge     *)
(* index i of the mark sequences, of (aScores[i] or 0) + (bScores[i] or    *)
(* 0): no mark that is present is left out.                                *)
(***************************************************************************)
sumOfAllMarks(x) ==
    SumSeq([i \in 1..NumJudges |->
        plus(OrZero(skaters[x].aScores, i), OrZero(skaters[x].bScores, i))])

C15_TotalOfAllMarks ==
    Done => \A x \in Competitors :
        recOf(x).totalScore = roundToOneDecimal(sumOfAllMarks(x))

\* Missing entries only at the end of a sequence, as parseInput pads them.
trailingOnly(arr) ==
    \A i, j \in DOMAIN arr : (i < j /\ arr[i] = null) => arr[j] = null

C15_TrailingMissing ==
    (Done /\ \A x \in Competitors : /\ trailingOnly(skaters[x].aScores)
                                    /\ trailingOnly(skaters[x].bScores))
        => \A x \in Competitors :
              recOf(x).totalScore = roundToOneDecimal(sumOfAllMarks(x))

(***************************************************************************)
(* C16.  Determinism of calculateRankings is a statement about two calls   *)
(* on the same input.  The model computes a call as an operator of its     *)
(* argument (scoring.ts keeps no state outside the locals of its           *)
(* functions), so the equality of two calls holds of any such model and    *)
(* is not stated as a formula.                                             *)
(***************************************************************************)

(***************************************************************************)
(* C17.  calculateRankings leaves its input unchanged: after the call the  *)
(* input collection has the same records in the same order, and each       *)
(* result record carries the name and the mark sequences of the input      *)
(* record it was built from.                                               *)
(***************************************************************************)
InputPassedThrough ==
    Done => /\ Len(order) = N
            /\ {order[k] : k \in DOMAIN order} = Competitors
            /\ \A k \in DOMAIN results :
                  /\ results[k].name = skaters[order[k]].name
                  /\ results[k].aScores = skaters[order[k]].aScores
                  /\ results[k].bScores = skaters[order[k]].bScores

C17_InputUnchanged ==
    /\ []InputPassedThrough
    /\ [][(pc = "input" /\ pc' = "done") => skaters' = skaters]_vars

\* A call that returns the records in an order different from the input's.
C17_Witness ==
    /\ Done
    /\ N = 3
    /\ order[1] = 3
    /\ order[3] = 1
    /\ results[1].aScores = skaters[3].aScores
    /\ results[1].aScores # skaters[1].aScores

(***************************************************************************)
(* C18.  A competitor whose majorityVictories value is shared by no other  *)
(* competitor has no tie-break data: tieBreakLevel, tieBreakValue and      *)
(* tieBreakInfo are all absent.                                            *)
(***************************************************************************)
NoTieBreakData(rec) ==
    /\ rec.tieBreakLevel = Absent
    /\ rec.tieBreakValue = Absent
    /\ rec.tieBreakInfo = Absent

C18_SingletonHasNoTieBreakData ==
    Done => \A x \in Competitors : GroupOf(x) = {x} => NoTieBreakData(recOf(x))

\* A competitor alone on its majorityVictories next to a tied pair that
\* carries tie-break data.
C18_Witness ==
    /\ Done
    /\ N = 3
    /\ \E x, y \in Competitors :
          /\ GroupOf(x) = {x}
          /\ NoTieBreakData(recOf(x))
          /\ Cardinality(GroupOf(y)) = 2
          /\ recOf(y).tieBreakLevel # Absent
          /\ recOf(y).tieBreakInfo # Absent

(***************************************************************************)
(* C19.  In every tied group, each member that differs from at least one   *)
(* other member of the group on some tie-break level has tieBreakLevel     *)
(* and tieBreakValue defined.                                              *)
(***************************************************************************)
C19_SeparatedMembersHaveBadge ==
    Done => \A x \in Competitors :
        (\E y \in GroupOf(x) \ {x} : tupleOf(y) # tupleOf(x))
            => /\ recOf(x).tieBreakLevel # Absent
               /\ recOf(x).tieBreakValue # Absent

\* What the code guarantees: a member has the two fields exactly when it
\* differs from the member it is compared with, the next one of its group
\* in the output order (the previous one for the last member).
comparedWith(x) ==
    LET last == \A y \in GroupOf(x) : recOf(y).rank <= recOf(x).rank
    IN  CHOOSE y \in GroupOf(x) :
            recOf(y).rank = recOf(x).rank + (IF last THEN -1 ELSE 1)

C19_NeighbourBadge ==
    (Done /\ DistinctNames) => \A x \in Competitors :
        Cardinality(GroupOf(x)) >= 2 =>
            /\ (recOf(x).tieBreakLevel # Absent)
                    = (tupleOf(comparedWith(x)) # tupleOf(x))
            /\ (recOf(x).tieBreakValue # Absent)
                    = (tupleOf(comparedWith(x)) # tupleOf(x))

(***************************************************************************)
(* C20.  parseInput names lines without a colon sequentially: the k-th     *)
(* colon-less line that yields a record is named "Skater k"; the           *)
(* numbering starts at 1, has no gaps and is not advanced by named lines   *)
(* or by skipped lines, so the generated names are pairwise distinct.      *)
(***************************************************************************)
Parsed == pc = "parsed"

inputLines == linesOf(input)

lineOf(k) == parseEntries(inputLines)[k].line

colonLess(k) == indexOf(trim(inputLines[lineOf(k)]), ":") = 0

\* The colon-less records up to and including the k-th record.
unnamedUpTo(k) == {m \in 1..k : colonLess(m)}

autoName(n) == <<"S", "k", "a", "t", "e", "r", " ">> \o toString(n)

C20_SequentialAutoNames ==
    Parsed => \A k \in DOMAIN skaters :
        colonLess(k) => skaters[k].name = autoName(Cardinality(unnamedUpTo(k)))

\* What the code guarantees: the number in the name counts the colon-less
\* lines that pass the blank and comment tests, whether or not they yield a
\* record; the generated names are pairwise distinct.
countedLines(k) ==
    {n \in 1..lineOf(k) :
        /\ trim(inputLines[n]) # <<>>
        /\ ~startsWith(trim(inputLines[n]), <<"#">>)
        /\ ~startsWith(trim(inputLines[n]), <<"/", "/">>)
        /\ indexOf(trim(inputLines[n]), ":") = 0}

C20_CountsSkippedLines ==
    Parsed => /\ \A k \in DOMAIN skaters :
                    colonLess(k) => skaters[k].name = autoName(Cardinality(countedLines(k)))
              /\ \A k, m \in DOMAIN skaters :
                    (colonLess(k) /\ colonLess(m) /\ k # m)
                        => skaters[k].name # skaters[m].name

(***************************************************************************)
(* C21.  Every record returned by parseInput has exactly three technical   *)
(* and three artistic entries, filled in order from the first (at most     *)
(* six) numbers of its line and then with missing markers, so the          *)
(* non-missing entries form a prefix of technical followed by artistic;    *)
(* blank lines, comment lines and lines containing no number produce no    *)
(* record; the records keep the order of their lines.                      *)
(***************************************************************************)
\* The numbers of a line: the matches of the number pattern in the
\* normalised score text of the trimmed line.
numbersOf(line) == matchNumbers(normalizeText(scoresText(trim(line))))

isBlank(line) == trim(line) = <<>>

isComment(line) ==
    startsWith(trim(line), <<"#">>) \/ startsWith(trim(line), <<"/", "/">>)

yieldsRecord(line) ==
    ~isBlank(line) /\ ~isComment(line) /\ numbersOf(line) # <<>>

marksOf(rec) == rec.aScores \o rec.bScores

C21_ParsedRecords ==
    Parsed =>
        /\ \A k \in DOMAIN skaters :
              LET numbers == numbersOf(inputLines[lineOf(k)])
                  marks == marksOf(skaters[k])
              IN  /\ Len(skaters[k].aScores) = 3
                  /\ Len(skaters[k].bScores) = 3
                  /\ \A i \in 1..6 :
                        marks[i] = IF i <= Len(numbers)
                                   THEN parseFloat(numbers[i])
                                   ELSE null
                  /\ \A i, j \in 1..6 : (i < j /\ marks[i] = null) => marks[j] = null
        /\ {lineOf(k) : k \in DOMAIN skaters}
              = {n \in DOMAIN inputLines : yieldsRecord(inputLines[n])}
        /\ \A k, m \in DOMAIN skaters : k < m => lineOf(k) < lineOf(m)

\* A text with a skipped line of white space other than the space between
\* a line of seven numbers, cut to six, and a line of two numbers, padded
\* with four missing markers, whose name and numbers stand between tabs.
C21_Witness ==
    /\ Parsed
    /\ Len(inputLines) = 3
    /\ Len(skaters) = 2
    /\ lineOf(2) = 3
    /\ Len(numbersOf(inputLines[1])) = 7
    /\ skaters[1].bScores[3] = quotient(6, 1)
    /\ isBlank(inputLines[2])
    /\ \E k \in DOMAIN inputLines[2] : inputLines[2][k] # " "
    /\ \E k \in DOMAIN inputLines[3] : inputLines[3][k] = "\t"
    /\ Len(numbersOf(inputLines[3])) = 2
    /\ skaters[2].name = <<"A">>
    /\ skaters[2].aScores[2] = quotient(2, 1)
    /\ skaters[2].aScores[3] = null

(***************************************************************************)
(* C22.  calculateJudgeTotals returns a sequence whose length is the       *)
(* effective judge count, max(number of non-missing technical entries,     *)
(* number of non-missing artistic entries), and whose i-th element is      *)
(* (technical[i] or 0) + (artistic[i] or 0); an index at or beyond the     *)
(* effective judge count has no total.  The reported totalScore is the     *)
(* rounded sum of exactly these totals.                                    *)
(***************************************************************************)
presentIn(arr) == {i \in DOMAIN arr : arr[i] # null}

judgeCount(x) ==
    Max(Cardinality(presentIn(skaters[x].aScores)),
        Cardinality(presentIn(skaters[x].bScores)))

markAt(arr, i) == IF i \in presentIn(arr) THEN arr[i] ELSE Zero

C22_JudgeTotals ==
    Done => \A x \in Competitors :
        LET totals == calculateJudgeTotals(skaters[x])
        IN  /\ Len(totals) = judgeCount(x)
            /\ DOMAIN totals = 1..judgeCount(x)
            /\ \A i \in 1..judgeCount(x) :
                  totals[i] = plus(markAt(skaters[x].aScores, i), markAt(skaters[x].bScores, i))
            /\ recOf(x).totalScore
                  = roundToOneDecimal(SumSeq(
                        [i \in 1..judgeCount(x) |->
                            plus(markAt(skaters[x].aScores, i), markAt(skaters[x].bScores, i))]))

\* A competitor with effective judge count 1 and a mark at the second
\* index, which has no total.
C22_Witness ==
    /\ Done
    /\ \E x \in Competitors :
          /\ judgeCount(x) = 1
          /\ Len(calculateJudgeTotals(skaters[x])) = 1
          /\ 2 \in presentIn(skaters[x].bScores)
          /\ greater(skaters[x].bScores[2], Zero)
          /\ recOf(x).totalScore = Zero

(***************************************************************************)
(* C23.  A competitor with no non-missing entry in either mark sequence    *)
(* (effective judge count 0) obtains PairScore 0 against every opponent,   *)
(* whatever the opponent's marks and judge count; against an opponent      *)
(* that also has effective judge count 0 the pair is a 0/0 tie and each    *)
(* of the two receives 0.5 majority victories.                             *)
(***************************************************************************)
C23_NoMarksScoreZero ==
    Done => \A x \in Competitors : judgeCount(x) = 0 =>
        /\ \A y \in Competitors \ {x} : PairScore(x, y) = 0
        /\ \A y \in Competitors \ {x} :
              (judgeCount(y) = 0 /\ N = 2) =>
                  /\ PairScore(y, x) = 0
                  /\ recOf(x).majorityVictories = Half
                  /\ recOf(y).majorityVictories = Half

\* What the code computes: against a judge of the opponent whose total is
\* 0 the competitor without marks ties (0 against 0, B mark 0 against 0)
\* and scores one half.
zeroJudges(y) ==
    {i \in 1..judgeCount(y) :
        plus(markAt(skaters[y].aScores, i), markAt(skaters[y].bScores, i)) = Zero}

C23_HalfPerZeroJudge ==
    Done => \A x \in Competitors : judgeCount(x) = 0 =>
        \A y \in Competitors \ {x} :
            PairScore(x, y) = Half * Cardinality(zeroJudges(y))

(***************************************************************************)
(* C24.  Members of a tied group that are equal on all four tie-break      *)
(* levels appear in the output, and receive their consecutive ranks, in    *)
(* the relative order in which they appear in the input collection.        *)
(***************************************************************************)
C24_StableAmongEqual ==
    Done => \A x \in Competitors : \A y \in GroupOf(x) \ {x} :
        (tupleOf(x) = tupleOf(y) /\ x < y)
            => /\ posOf(x) < posOf(y)
               /\ recOf(x).rank < recOf(y).rank

\* The same statement for collections in which every name is used once.
C24_DistinctNames ==
    (Done /\ DistinctNames) => \A x \in Competitors : \A y \in GroupOf(x) \ {x} :
        (tupleOf(x) = tupleOf(y) /\ x < y)
            => /\ posOf(x) < posOf(y)
               /\ recOf(x).rank < recOf(y).rank

(***************************************************************************)
(* C25.  Level 4 compares the rounded totalScore.  Two members of a tied   *)
(* group that are equal on levels 1 to 3 and whose unrounded totals        *)
(* differ but round to the same tenth are not separated by level 4: they   *)
(* keep their input order and get no total-score record.  Two such         *)
(* members whose rounded totals differ are ordered by the rounded values.  *)
(***************************************************************************)
unroundedTotal(x) == calculateTotalScore(skaters[x])

equalBeforeTotal(x, y) ==
    \A level \in 1..3 : tupleOf(x)[level] = tupleOf(y)[level]

sameTenth(x, y) ==
    /\ unroundedTotal(x) # unroundedTotal(y)
    /\ recOf(x).totalScore = recOf(y).totalScore

trailOf(x) == IF recOf(x).tieBreakInfo = Absent THEN <<>> ELSE recOf(x).tieBreakInfo[1]

hasTotalScoreRecord(x) ==
    \/ recOf(x).tieBreakLevel = Present("total-score")
    \/ \E k \in DOMAIN trailOf(x) : trailOf(x)[k].level = "total-score"

C25_RoundedTotals ==
    Done => \A x \in Competitors : \A y \in GroupOf(x) \ {x} :
        equalBeforeTotal(x, y)
            => /\ (sameTenth(x, y) /\ x < y)
                    => /\ posOf(x) < posOf(y)
                       /\ ~hasTotalScoreRecord(x)
                       /\ ~hasTotalScoreRecord(y)
               /\ greater(recOf(x).totalScore, recOf(y).totalScore)
                    => recOf(x).rank < recOf(y).rank

\* The ordering half alone.
C25_OrderByRoundedTotal ==
    Done => \A x \in Competitors : \A y \in GroupOf(x) \ {x} :
        equalBeforeTotal(x, y)
            => /\ (sameTenth(x, y) /\ x < y) => posOf(x) < posOf(y)
               /\ greater(recOf(x).totalScore, recOf(y).totalScore)
                    => recOf(x).rank < recOf(y).rank

\* With every name used once the ordering half holds, and a pair within
\* the same tenth carries a total-score record only when a third member
\* of the group has another rounded total.
C25_DistinctNames ==
    (Done /\ DistinctNames) => \A x \in Competitors : \A y \in GroupOf(x) \ {x} :
        equalBeforeTotal(x, y)
            => /\ (sameTenth(x, y) /\ x < y)
                    => /\ posOf(x) < posOf(y)
                       /\ (hasTotalScoreRecord(x) \/ hasTotalScoreRecord(y))
                             => \E z \in GroupOf(x) :
                                   recOf(z).totalScore # recOf(x).totalScore
               /\ greater(recOf(x).totalScore, recOf(y).totalScore)
                    => recOf(x).rank < recOf(y).rank

\* A pair within the same tenth, equal on levels 1 to 3, in a group of two.
C25_SameTenthReached ==
    /\ Done /\ DistinctNames
    /\ \E x \in Competitors : \E y \in GroupOf(x) \ {x} :
          /\ equalBeforeTotal(x, y) /\ sameTenth(x, y)
          /\ GroupOf(x) = {x, y}

(***************************************************************************)
(* C26.  The summary fields of a member of a tied group name the first of  *)
(* the four levels at which the member differs from its immediate          *)
(* neighbour in the final order (the next member, or the previous one for  *)
(* the last member), together with the member's own value at that level;   *)
(* they are absent exactly when the member equals that neighbour on all    *)
(* four levels.                                                            *)
(***************************************************************************)
levelNames == <<"direct-comparison", "b-score-sum", "comparison-all", "total-score">>

\* The first level at which x and y differ, 0 when they differ at none.
firstDifference(x, y) ==
    IF tupleOf(x) = tupleOf(y) THEN 0
    ELSE CHOOSE level \in 1..4 :
            /\ tupleOf(x)[level] # tupleOf(y)[level]
            /\ \A earlier \in 1..(level - 1) : tupleOf(x)[earlier] = tupleOf(y)[earlier]

summaryAgrees(x) ==
    LET level == firstDifference(x, comparedWith(x))
    IN  IF level = 0
        THEN /\ recOf(x).tieBreakLevel = Absent
             /\ recOf(x).tieBreakValue = Absent
        ELSE /\ recOf(x).tieBreakLevel = Present(levelNames[level])
             /\ recOf(x).tieBreakValue = Present(tupleOf(x)[level])

C26_SummaryAgainstNeighbour ==
    Done => \A x \in Competitors :
        Cardinality(GroupOf(x)) >= 2 => summaryAgrees(x)

\* The same statement for collections in which every name is used once.
C26_DistinctNames ==
    (Done /\ DistinctNames) => \A x \in Competitors :
        Cardinality(GroupOf(x)) >= 2 => summaryAgrees(x)

\* A group of three whose middle member equals the first on every level
\* and whose last member differs: the first member has no summary, the
\* other two have one.
C26_DistinctNamesWitness ==
    /\ Done /\ DistinctNames /\ N = 3
    /\ \E x \in Competitors :
          /\ GroupOf(x) = Competitors
          /\ recOf(x).rank = 1
          /\ recOf(x).tieBreakLevel = Absent
          /\ \E y \in Competitors :
                /\ recOf(y).rank = 2
                /\ recOf(y).tieBreakLevel # Absent

(***************************************************************************)
(* C27.  For each member X of a tied group, tieBreakInfo contains a        *)
(* record for level L exactly when some two members of the group differ    *)
(* at L and at least one other member has the same value as X at every     *)
(* level before L; the records are in cascade order and carry X's own      *)
(* value.  So a trail starts at the group's first differing level, is      *)
(* empty when the group differs at no level, and ends at the first level   *)
(* that makes X unique or at level 4.                                      *)
(***************************************************************************)
differsAt(group, level) ==
    \E y, z \in group : tupleOf(y)[level] # tupleOf(z)[level]

sharesBefore(x, level) ==
    \E y \in GroupOf(x) \ {x} :
        \A earlier \in 1..(level - 1) : tupleOf(y)[earlier] = tupleOf(x)[earlier]

expectedTrail(x) ==
    LET recorded(level) == differsAt(GroupOf(x), level) /\ sharesBefore(x, level)
        levels == SelectSeq(<<1, 2, 3, 4>>, recorded)
    IN  [k \in DOMAIN levels |->
            [level |-> levelNames[levels[k]], value |-> tupleOf(x)[levels[k]]]]

\* Two trails with the same levels and, level by level, the same values.
sameTrail(t, u) ==
    /\ Len(t) = Len(u)
    /\ \A k \in DOMAIN t :
          t[k].level = u[k].level /\ t[k].value = u[k].value

trailAgrees(x) ==
    /\ recOf(x).tieBreakInfo # Absent
    /\ sameTrail(trailOf(x), expectedTrail(x))
    /\ (trailOf(x) = <<>>) = (\A level \in 1..4 : ~differsAt(GroupOf(x), level))
    /\ trailOf(x) # <<>> =>
          \E first \in 1..4 :
              /\ trailOf(x)[1].level = levelNames[first]
              /\ differsAt(GroupOf(x), first)
              /\ \A earlier \in 1..(first - 1) : ~differsAt(GroupOf(x), earlier)

C27_ProvenanceTrail ==
    Done => \A x \in Competitors :
        Cardinality(GroupOf(x)) >= 2 => trailAgrees(x)

\* The same statement for collections in which every name is used once.
C27_DistinctNames ==
    (Done /\ DistinctNames) => \A x \in Competitors :
        Cardinality(GroupOf(x)) >= 2 => trailAgrees(x)

\* A group of three in which one member is unique after one level and the
\* other two carry a second record.
C27_DistinctNamesWitness ==
    /\ Done /\ DistinctNames /\ N = 3
    /\ \E x, y \in Competitors :
          /\ GroupOf(x) = Competitors
          /\ y # x
          /\ Len(trailOf(x)) = 1
          /\ Len(trailOf(y)) = 2
          /\ trailOf(y)[1].level # "total-score"

(***************************************************************************)
(* C28.  The head-to-head report agrees with the majority decision for     *)
(* any pattern of missing marks: the entry of X against Y has won = true   *)
(* exactly when PairScore(X,Y) > PairScore(Y,X), and skaterVotes =         *)
(* opponentVotes exactly when the pair was a draw; so majorityVictories(X) *)
(* is the number of X's won entries plus half the number of its entries    *)
(* with equal votes.                                                       *)
(***************************************************************************)
entryAgrees(x, y) ==
    /\ hasEntry(x, y)
    /\ entry(x, y).won = (PairScore(x, y) > PairScore(y, x))
    /\ (entry(x, y).skaterVotes = entry(x, y).opponentVotes)
            = (PairScore(x, y) = PairScore(y, x))

victoriesFromEntries(x) ==
    LET list == recOf(x).headToHeadResults
        won == {k \in DOMAIN list : list[k].won}
        equalVotes == {k \in DOMAIN list : list[k].skaterVotes = list[k].opponentVotes}
    IN  One * Cardinality(won) + Half * Cardinality(equalVotes)

reportAgrees(x) ==
    /\ \A y \in Competitors \ {x} : entryAgrees(x, y)
    /\ recOf(x).majorityVictories = victoriesFromEntries(x)

C28_ReportMatchesMajority ==
    Done => \A x \in Competitors : reportAgrees(x)

\* The statement for distinct names and missing marks only at the end of
\* the sequences.
C28_TrailingMissing ==
    (Done /\ DistinctNames
          /\ \A x \in Competitors : /\ trailingOnly(skaters[x].aScores)
                                    /\ trailingOnly(skaters[x].bScores))
        => \A x \in Competitors : reportAgrees(x)

\* Distinct names, a mark after a missing one, and a report that disagrees
\* with the majority decision.
C28_MarkAfterMissing ==
    /\ Done /\ DistinctNames /\ N = 2
    /\ \E x \in Competitors : \E y \in Competitors \ {x} :
          /\ ~trailingOnly(skaters[x].aScores)
          /\ hasEntry(x, y)
          /\ entry(x, y).won
          /\ PairScore(x, y) = PairScore(y, x)
          /\ recOf(x).majorityVictories = Half

(***************************************************************************)
(* C29.  The summary and the trail never contradict each other: whenever   *)
(* a result record has tieBreakLevel defined, its tieBreakInfo contains a  *)
(* record with that level whose value equals tieBreakValue, and every      *)
(* level recorded in tieBreakInfo before it is a level on which the        *)
(* member equals its comparison neighbour.                                 *)
(***************************************************************************)
levelIndex(name) == CHOOSE level \in 1..4 : levelNames[level] = name

summaryInTrail(x) ==
    \E k \in DOMAIN trailOf(x) :
        /\ trailOf(x)[k].level = recOf(x).tieBreakLevel[1]
        /\ recOf(x).tieBreakValue # Absent
        /\ trailOf(x)[k].value = recOf(x).tieBreakValue[1]
        /\ \A m \in 1..(k - 1) :
              tupleOf(x)[levelIndex(trailOf(x)[m].level)]
                  = tupleOf(comparedWith(x))[levelIndex(trailOf(x)[m].level)]

C29_SummaryInTrail ==
    Done => \A x \in Competitors :
        recOf(x).tieBreakLevel # Absent => summaryInTrail(x)

\* The same statement for collections in which every name is used once.
C29_DistinctNames ==
    (Done /\ DistinctNames) => \A x \in Competitors :
        recOf(x).tieBreakLevel # Absent => summaryInTrail(x)

\* A summary that names the second record of a trail.
C29_DistinctNamesWitness ==
    /\ Done /\ DistinctNames
    /\ \E x \in Competitors :
          /\ recOf(x).tieBreakLevel # Absent
          /\ Len(trailOf(x)) = 2
          /\ trailOf(x)[2].level = recOf(x).tieBreakLevel[1]

(***************************************************************************)
(* C30.  The transitive reduction of buildGraph only removes redundant     *)
(* victories: every link it emits is a head-to-head entry with won =       *)
(* true, and for every won pair that is not emitted as a link there is a   *)
(* directed path of emitted links from the winner to the loser, for any    *)
(* result collection with distinct names and distinct ranks.               *)
(***************************************************************************)
Drawn == pc = "drawn"

wonPairs ==
    {<<results[x].name, results[x].headToHeadResults[k].opponent>> :
        <<x, k>> \in wonEntries(results)}

emitted == {<<graph.links[k].source, graph.links[k].target>> : k \in DOMAIN graph.links}

\* The names reachable from the names of S over one or more pairs of E.
RECURSIVE reached(_, _)
reached(S, E) ==
    LET more == S \cup {e[2] : e \in {q \in E : q[1] \in S}}
    IN  IF more = S THEN S ELSE reached(more, E)

hasPath(a, c, E) == c \in reached({e[2] : e \in {q \in E : q[1] = a}}, E)

C30_TransitiveReduction ==
    Drawn => /\ emitted \subseteq wonPairs
             /\ \A won \in wonPairs \ emitted : hasPath(won[1], won[2], emitted)

\* A victory that is not drawn and whose shortest path of drawn links has
\* three links, in a collection with a record without headToHeadResults.
C30_Witness ==
    /\ Drawn
    /\ \E x \in DOMAIN results : ~hasHeadToHeadResults(results[x])
    /\ \E won \in wonPairs \ emitted :
          /\ hasPath(won[1], won[2], emitted)
          /\ ~\E b \in {e[2] : e \in emitted} :
                /\ <<won[1], b>> \in emitted
                /\ <<b, won[2]>> \in emitted

\* A victory over a name that is not in the collection is drawn, beside a
\* victory that is not drawn, in a collection with a record without
\* headToHeadResults.
C30_ForeignOpponentDrawn ==
    /\ Drawn
    /\ \E x \in DOMAIN results : ~hasHeadToHeadResults(results[x])
    /\ wonPairs \ emitted # {}
    /\ \E link \in emitted : \A x \in DOMAIN results : results[x].name # link[2]

\* Two won entries of one record against the same opponent, whose
\* victory is not drawn.
C30_RepeatedEntryRemoved ==
    /\ Drawn
    /\ \E e, f \in wonEntries(results) :
          /\ e[1] = f[1]
          /\ e[2] < f[2]
          /\ results[e[1]].headToHeadResults[e[2]].opponent
                = results[e[1]].headToHeadResults[f[2]].opponent
          /\ <<results[e[1]].name, results[e[1]].headToHeadResults[e[2]].opponent>>
                \notin emitted

=============================================================================
